---------------------------- MODULE Spec2Model ----------------------------
(***************************************************************************)
(* State-machine model of the xmlui-bundler installers (all revisions     *)
(* kept in the repository): the archive extractors unzipTo / untarGzTo,   *)
(* ensureExecutable, moveIntoPlace, the downloaders and the main runs.    *)
(*                                                                         *)
(* A file name is a sequence of tokens (<<"foo","-","bar">> is "foo-bar"), *)
(* so that strings.HasPrefix / HasSuffix are computed on the name.  A path *)
(* is a sequence of names.  The filesystem is a function from the paths    *)
(* that exist to their nodes.                                              *)
(***************************************************************************)
EXTENDS Integers, Sequences, FiniteSets, TLC

VARIABLES fs, call, run

vars == <<fs, call, run>>

(***************************************************************************)
(* Bounds of the model.                                                    *)
(***************************************************************************)
MaxEntries == 2
MaxFaults == 1

(***************************************************************************)
(* Permission bits.                                                        *)
(***************************************************************************)
ModeExec == 493
ModeCreate == 438
ModePlain == 420

XBits == {64, 8, 1}

HasBit(m, b) == (m \div b) % 2 = 1

RECURSIVE SumSet(_)
SumSet(S) == IF S = {} THEN 0 ELSE LET x == CHOOSE y \in S : TRUE IN x + SumSet(S \ {x})

\* chmod +x : every execute bit that is not yet set is added
AddX(m) == m + SumSet({b \in XBits : ~HasBit(m, b)})

(***************************************************************************)
(* Names and paths.                                                        *)
(***************************************************************************)
HasPrefix(s, p) == Len(p) <= Len(s) /\ SubSeq(s, 1, Len(p)) = p

HasSuffix(s, x) == Len(x) <= Len(s) /\ SubSeq(s, Len(s) - Len(x) + 1, Len(s)) = x

TrimSuffix(s, x) == IF HasSuffix(s, x) THEN SubSeq(s, 1, Len(s) - Len(x)) ELSE s

DotDot == <<"..">>

\* the empty string used as a path (the zero value of a Go string)
EmptyPath == << <<>> >>

RECURSIVE Clean(_)
Clean(p) ==
    IF Len(p) = 0 THEN p
    ELSE LET init == Clean(SubSeq(p, 1, Len(p) - 1))
             last == p[Len(p)]
         IN  IF last = DotDot
             THEN IF Len(init) = 0 THEN init ELSE SubSeq(init, 1, Len(init) - 1)
             ELSE Append(init, last)

\* a variant that forgets the destination root
JoinEntryOnly(d, rel) == Clean(rel)

Join(d, rel) == Clean(d \o rel)

Dir(p) == IF Len(p) = 0 THEN p ELSE SubSeq(p, 1, Len(p) - 1)

Base(p) == p[Len(p)]

Prefixes(p) == {SubSeq(p, 1, k) : k \in 0..Len(p)}

IsUnder(p, d) == HasPrefix(p, d)

(***************************************************************************)
(* The filesystem.                                                         *)
(***************************************************************************)
DirNode == [kind |-> "dir", bytes |-> <<>>, mode |-> ModeExec, q |-> FALSE]

FileNode(b, m, quar) == [kind |-> "file", bytes |-> b, mode |-> m, q |-> quar]

Exists(f, p) == p \in DOMAIN f

IsDir(f, p) == p \in DOMAIN f /\ f[p].kind = "dir"

IsFile(f, p) == p \in DOMAIN f /\ f[p].kind = "file"

Children(f, d) == {p \in DOMAIN f : Len(p) = Len(d) + 1 /\ HasPrefix(p, d)}

Subtree(f, d) == {p \in DOMAIN f : HasPrefix(p, d)}

\* os.MkdirAll; every caller drops its error, so only the filesystem is returned
MkdirAll(f, p, fail) ==
    IF IsDir(f, p) THEN f
    ELSE IF fail THEN f
    ELSE IF \E r \in Prefixes(p) : IsFile(f, r) THEN f
    ELSE [r \in DOMAIN f \cup Prefixes(p) |-> IF r \in DOMAIN f THEN f[r] ELSE DirNode]

CanCreate(f, p) == Len(p) > 0 /\ p # EmptyPath /\ IsDir(f, Dir(p)) /\ ~IsDir(f, p)

\* os.Create: truncates an existing file (mode kept) or makes a new one
Create(f, p) ==
    IF IsFile(f, p) THEN [f EXCEPT ![p].bytes = <<>>]
    ELSE [r \in DOMAIN f \cup {p} |-> IF r = p THEN FileNode(<<>>, ModeCreate, FALSE) ELSE f[r]]

WriteFile(f, p, b) == [f EXCEPT ![p].bytes = b]

Chmod(f, p, m) == [f EXCEPT ![p].mode = m]

\* what a failed io.Copy leaves behind: a strict prefix of the content
Partial(b) == IF Len(b) = 0 THEN b ELSE SubSeq(b, 1, Len(b) - 1)

RemoveAll(f, p) == [r \in {x \in DOMAIN f : ~HasPrefix(x, p)} |-> f[r]]

\* a variant in which a rename replaces whatever is at the target
CanRenameOntoAny(f, src, dst) ==
    /\ Exists(f, src)
    /\ Len(src) > 0
    /\ Len(dst) > 0
    /\ dst # EmptyPath
    /\ IsDir(f, Dir(dst))
    /\ ~(HasPrefix(dst, src) /\ dst # src)

\* os.Rename(src, dst) can succeed
CanRename(f, src, dst) ==
    /\ Exists(f, src)
    /\ Len(src) > 0
    /\ Len(dst) > 0
    /\ dst # EmptyPath
    /\ IsDir(f, Dir(dst))
    /\ ~(HasPrefix(dst, src) /\ dst # src)
    /\ \/ ~Exists(f, dst)
       \/ dst = src
       \/ IsFile(f, src) /\ IsFile(f, dst)
       \/ IsDir(f, src) /\ IsDir(f, dst) /\ Children(f, dst) = {}

Rename(f, src, dst) ==
    IF dst = src THEN f
    ELSE LET moved == Subtree(f, src)
             kept  == {r \in DOMAIN f : ~HasPrefix(r, src) /\ ~HasPrefix(r, dst)}
             to(r) == dst \o SubSeq(r, Len(src) + 1, Len(r))
             new   == {to(r) : r \in moved}
         IN  [r \in kept \cup new |->
                 IF r \in new THEN f[CHOOSE s \in moved : to(s) = r] ELSE f[r]]


(***************************************************************************)
(* Directory listing order: os.ReadDir returns the entries sorted by file  *)
(* name.  The tokens are listed in byte order and none is a prefix of      *)
(* another, so comparing names token by token is comparing the strings.    *)
(***************************************************************************)
TokenOrder ==
    << "-", ".bat", ".exe", ".md", ".sh", ".txt", "README", "Tmp", "a", "bar", "baz",
       "cleanup", "client", "components", "data", "dest", "docs", "foo", "invoice", "mac",
       "main", "mcp", "out", "pages",
       "proj", "readme", "run", "server", "source", "src", "start", "sub", "test",
       "xmlui" >>

Rank(t) == CHOOSE i \in 1..Len(TokenOrder) : TokenOrder[i] = t

RECURSIVE NameLess(_, _)
NameLess(a, b) ==
    IF Len(b) = 0 THEN FALSE
    ELSE IF Len(a) = 0 THEN TRUE
    ELSE IF a[1] = b[1] THEN NameLess(Tail(a), Tail(b))
    ELSE Rank(a[1]) < Rank(b[1])

\* a variant that takes the last name of the listing
LastName(S) == CHOOSE n \in S : \A m \in S \ {n} : NameLess(m, n)

\* the first name of a listing
FirstName(S) == CHOOSE n \in S : \A m \in S \ {n} : NameLess(n, m)

ChildNames(f, d) == {Base(p) : p \in Children(f, d)}

(***************************************************************************)
(* ensureExecutable.  Two bodies exist: the one that returns the error of  *)
(* os.Chmod (part_000, part_001, part_002) and the one that stats the      *)
(* path, logs a failed chmod and falls back to the shell's chmod +x        *)
(* (xmlui-launcher.go, part_003, part_004).  flt says which of the calls   *)
(* the environment lets fail.                                              *)
(***************************************************************************)
StatRevs == {"launcher1", "launcher2", "p003", "p004"}

ChmodErrRevs == {"p000a", "p000b", "p001", "p002"}

NoFlt == [chmod |-> FALSE, shell |-> FALSE, xattr |-> FALSE]

\* exec.Command("xattr", "-d", "com.apple.quarantine", path).Run(), result dropped
XattrDelete(f, path, fail) ==
    IF ~fail /\ Exists(f, path) /\ f[path].q THEN [f EXCEPT ![path].q = FALSE] ELSE f

ensureExecutableChmodErr(goos, f, path, flt) ==
    IF flt.chmod \/ ~Exists(f, path)
    THEN [fs |-> f, err |-> "chmod"]
    ELSE LET f1 == Chmod(f, path, ModeExec)
         IN  [fs |-> IF goos = "darwin" THEN XattrDelete(f1, path, flt.xattr) ELSE f1,
              err |-> "nil"]

ensureExecutableStat(f, path, flt) ==
    IF ~Exists(f, path)
    THEN [fs |-> f, err |-> "notfound"]
    ELSE LET f1 == IF flt.chmod THEN f ELSE Chmod(f, path, ModeExec)
             f2 == IF flt.shell THEN f1 ELSE Chmod(f1, path, AddX(f1[path].mode))
         IN  [fs |-> f2, err |-> "nil"]

ensureExecutable(rev, goos, f, path, flt) ==
    IF rev \in StatRevs
    THEN ensureExecutableStat(f, path, flt)
    ELSE ensureExecutableChmodErr(goos, f, path, flt)

(***************************************************************************)
(* Archives.  data is what a download returned: its format, the entries    *)
(* the reader yields in order, and whether the stream breaks after them    *)
(* (tarReader.Next returning an error other than io.EOF).  plan[i] is the  *)
(* call that the environment lets fail while entry i is extracted.         *)
(***************************************************************************)
DirEntry(p) == [path |-> p, kind |-> "dir", bytes |-> <<>>, mode |-> ModeExec]

FileEntry(p, b, m) == [path |-> p, kind |-> "file", bytes |-> b, mode |-> m]

NoResult == [fs |-> <<>>, err |-> "nil", ret |-> EmptyPath, leak |-> 0, failed |-> {}]

\* one pass of the loop of unzipTo
UnzipEntry(f, e, dest, fault) ==
    LET fpath == Join(dest, e.path)
    IN  IF e.kind = "dir"
        THEN LET f1 == MkdirAll(f, fpath, fault = "mkdir")
             IN  [fs |-> f1, err |-> "nil", ret |-> EmptyPath, leak |-> 0,
                  failed |-> IF IsDir(f1, fpath) THEN {} ELSE {"mkdir"}]
        ELSE LET f1 == MkdirAll(f, Dir(fpath), fault = "mkdir")
                 md == IF IsDir(f1, Dir(fpath)) THEN {} ELSE {"mkdir"}
             IN  IF fault = "open"
                 THEN [fs |-> f1, err |-> "open", ret |-> EmptyPath, leak |-> 0,
                       failed |-> md \cup {"open"}]
                 ELSE IF fault = "create" \/ ~CanCreate(f1, fpath)
                 THEN [fs |-> f1, err |-> "create", ret |-> EmptyPath, leak |-> 1,
                       failed |-> md \cup {"create"}]
                 ELSE IF fault = "copy"
                 THEN [fs |-> WriteFile(Create(f1, fpath), fpath, Partial(e.bytes)),
                       err |-> "nil", ret |-> EmptyPath, leak |-> 0,
                       failed |-> md \cup {"copy"}]
                 ELSE [fs |-> WriteFile(Create(f1, fpath), fpath, e.bytes),
                       err |-> "nil", ret |-> EmptyPath, leak |-> 0, failed |-> md]

\* a variant that removes what the call has unpacked before it returns the error
RemovedOnError(f, dest) == [p \in {x \in DOMAIN f : ~(HasPrefix(x, dest) /\ x # dest)} |-> f[p]]

\* return err: the extractors undo nothing, what is written stays
LeftOnError(f, dest) == f

RECURSIVE UnzipLoop(_, _, _, _, _, _)
UnzipLoop(f, entries, dest, plan, i, failed) ==
    IF i > Len(entries)
    THEN [fs |-> f, err |-> "nil", ret |-> EmptyPath, leak |-> 0, failed |-> failed]
    ELSE LET r == UnzipEntry(f, entries[i], dest, plan[i])
         IN  IF r.err # "nil"
             THEN [r EXCEPT !.fs = LeftOnError(r.fs, dest), !.failed = failed \cup r.failed]
             ELSE UnzipLoop(r.fs, entries, dest, plan, i + 1, failed \cup r.failed)

\* a variant that walks the entries without the check of zip.NewReader
unzipToNoCheck(data, dest, f, plan) == UnzipLoop(f, data.entries, dest, plan, 1, {})

unzipTo(data, dest, f, plan) ==
    IF data.fmt # "zip"
    THEN [fs |-> f, err |-> "format", ret |-> EmptyPath, leak |-> 0, failed |-> {}]
    ELSE UnzipLoop(f, data.entries, dest, plan, 1, {})

(***************************************************************************)
(* untarGzTo.  Three bodies exist: the one that calls ensureExecutable on  *)
(* every file and returns only an error (part_000, part_001), the one that *)
(* calls outFile.Chmod(0755), drops its result and returns the last file's *)
(* path (xmlui-launcher.go, part_003, part_004), and the one of part_002,  *)
(* which returns the last file's path and sets no permission at all.       *)
(***************************************************************************)
TarEnsureRevs == {"p000a", "p000b", "p001"}

TarChmodRevs == {"launcher1", "launcher2", "p003", "p004"}

TarPlainRevs == {"p002"}

\* one pass of the loop of untarGzTo; ret is the path of the file written
UntarEntry(rev, goos, f, e, dest, fault) ==
    LET fpath == Join(dest, e.path)
    IN  IF e.kind = "dir"
        THEN LET f1 == MkdirAll(f, fpath, fault = "mkdir")
             IN  [fs |-> f1, err |-> "nil", ret |-> EmptyPath, leak |-> 0,
                  failed |-> IF IsDir(f1, fpath) THEN {} ELSE {"mkdir"}]
        ELSE LET f1 == MkdirAll(f, Dir(fpath), fault = "mkdir")
                 md == IF IsDir(f1, Dir(fpath)) THEN {} ELSE {"mkdir"}
             IN  IF fault = "create" \/ ~CanCreate(f1, fpath)
                 THEN [fs |-> f1, err |-> "create", ret |-> EmptyPath, leak |-> 0,
                       failed |-> md \cup {"create"}]
                 ELSE IF fault = "copy"
                 THEN [fs |-> WriteFile(Create(f1, fpath), fpath, Partial(e.bytes)),
                       err |-> "copy", ret |-> EmptyPath, leak |-> 1,
                       failed |-> md \cup {"copy"}]
                 ELSE LET f3 == WriteFile(Create(f1, fpath), fpath, e.bytes)
                      IN  IF rev \in TarChmodRevs
                          THEN [fs |-> IF fault = "chmod" THEN f3
                                       ELSE Chmod(f3, fpath, ModeExec),
                                err |-> "nil", ret |-> fpath, leak |-> 0,
                                failed |-> md \cup (IF fault = "chmod" THEN {"chmod"} ELSE {})]
                          ELSE IF rev \in TarPlainRevs
                          THEN [fs |-> f3, err |-> "nil", ret |-> fpath, leak |-> 0,
                                failed |-> md]
                          ELSE LET x == ensureExecutable(rev, goos, f3, fpath,
                                            [NoFlt EXCEPT !.chmod = (fault = "chmod")])
                               IN  [fs |-> x.fs, err |-> x.err, ret |-> fpath, leak |-> 0,
                                    failed |-> md \cup (IF x.err = "nil" THEN {} ELSE {"chmod"})]

\* a variant that records the path of every entry, directories included
NextLastAnyEntry(last, e, fpath) == fpath

\* lastBinaryPath = fpath, reached for file entries only
NextLast(last, e, fpath) == IF e.kind = "dir" THEN last ELSE fpath

RECURSIVE UntarLoop(_, _, _, _, _, _, _, _, _, _)
UntarLoop(rev, goos, f, entries, bad, dest, plan, i, last, failed) ==
    IF i > Len(entries)
    THEN IF bad
         THEN [fs |-> f, err |-> "format", ret |-> EmptyPath, leak |-> 0, failed |-> failed]
         ELSE [fs |-> f, err |-> "nil",
               ret |-> IF rev \in TarEnsureRevs THEN EmptyPath ELSE last,
               leak |-> 0, failed |-> failed]
    ELSE LET r == UntarEntry(rev, goos, f, entries[i], dest, plan[i])
         IN  IF r.err # "nil"
             THEN [r EXCEPT !.fs = LeftOnError(r.fs, dest), !.ret = EmptyPath,
                            !.failed = failed \cup r.failed]
             ELSE UntarLoop(rev, goos, r.fs, entries, bad, dest, plan, i + 1,
                            NextLast(last, entries[i], Join(dest, entries[i].path)),
                            failed \cup r.failed)

untarGzTo(rev, goos, data, dest, f, plan) ==
    IF data.fmt # "targz"
    THEN [fs |-> f, err |-> "format", ret |-> EmptyPath, leak |-> 0, failed |-> {}]
    ELSE UntarLoop(rev, goos, f, data.entries, data.bad, dest, plan, 1, EmptyPath, {})

(***************************************************************************)
(* moveIntoPlace(srcParent, repoName, installDir)                          *)
(***************************************************************************)
Dash == <<"-">>

\* a variant that matches on the bare repository name
RepoPrefixNoDash(repoName) == repoName

RepoPrefix(repoName) == repoName \o Dash

moveIntoPlace(f, srcParent, repoName, installDir, readFails, renameFails) ==
    LET repoPrefix == RepoPrefix(repoName)
    IN  IF readFails \/ ~IsDir(f, srcParent)
        THEN [fs |-> f, err |-> "readdir", ret |-> EmptyPath, leak |-> 0, failed |-> {}]
        ELSE LET matches == {n \in ChildNames(f, srcParent) : HasPrefix(n, repoPrefix)}
             IN  IF matches = {}
                 THEN [fs |-> f, err |-> "notfound", ret |-> EmptyPath, leak |-> 0,
                       failed |-> {}]
                 ELSE LET tmp   == Join(srcParent, <<FirstName(matches)>>)
                          final == Join(installDir, <<repoName>>)
                      IN  IF renameFails \/ ~CanRename(f, tmp, final)
                          THEN [fs |-> f, err |-> "rename", ret |-> EmptyPath, leak |-> 0,
                                failed |-> {"rename"}]
                          ELSE [fs |-> Rename(f, tmp, final), err |-> "nil", ret |-> final,
                                leak |-> 0, failed |-> {}]

(***************************************************************************)
(* The operations taken one at a time.  Init draws one call (operation,    *)
(* revision, platform, filesystem before the call, arguments, and what the *)
(* environment lets fail); the action of that operation applies it.        *)
(***************************************************************************)
Root == <<>>

Dest == << <<"dest">> >>

Out == << <<"out">> >>

NameA == <<"a">>

NameSub == <<"sub">>

ProjMain == <<"proj", "-", "main">>

StartSh == <<"start", ".sh">>

DataDir == <<"data">>

ReadmeTxt == <<"readme", ".txt">>

FsOf(pairs) == [p \in {x[1] : x \in pairs} |-> (CHOOSE x \in pairs : x[1] = p)[2]]

SeedEmpty == FsOf({<<Root, DirNode>>, <<Dest, DirNode>>})

SeedOld == FsOf({<<Root, DirNode>>, <<Dest, DirNode>>,
                 <<Dest \o <<NameA>>, FileNode(<<9>>, ModePlain, TRUE)>>})

EntryPool ==
    { DirEntry(<<NameSub>>),
      FileEntry(<<NameA>>, <<1>>, ModePlain),
      FileEntry(<<NameSub, NameA>>, <<2, 3>>, ModeExec),
      FileEntry(<<NameA>>, <<2, 3>>, ModeExec),
      FileEntry(<<NameSub>>, <<1>>, ModePlain) }

Fixture ==
    << DirEntry(<<ProjMain>>),
       FileEntry(<<ProjMain, StartSh>>, <<7>>, ModePlain),
       DirEntry(<<ProjMain, DataDir>>),
       FileEntry(<<ProjMain, DataDir, ReadmeTxt>>, <<8, 9>>, ModePlain) >>

FixtureFilesOnly ==
    << FileEntry(<<ProjMain, StartSh>>, <<7>>, ModePlain),
       FileEntry(<<ProjMain, DataDir, ReadmeTxt>>, <<8, 9>>, ModePlain) >>

\* two files of different paths with a directory entry after them
FilesThenDir ==
    << FileEntry(<<NameA>>, <<1>>, ModePlain),
       FileEntry(<<NameSub, NameA>>, <<2, 3>>, ModeExec),
       DirEntry(<<NameSub>>) >>

\* entries whose path climbs out of the destination
Traversal ==
    << FileEntry(<<DotDot, NameA>>, <<1>>, ModePlain),
       DirEntry(<<NameSub, DotDot, DotDot, NameSub>>) >>

EntryLists ==
    UNION {[1..k -> EntryPool] : k \in 0..MaxEntries}
        \cup {Fixture, FixtureFilesOnly, FilesThenDir, Traversal}

ZipFaults == {"mkdir", "open", "create", "copy"}

TarFaults == {"mkdir", "create", "copy", "chmod"}

Plans(n, kinds) ==
    {pl \in [1..n -> kinds \cup {"none"}] :
        Cardinality({i \in 1..n : pl[i] # "none"}) <= MaxFaults}

NoPlan(n) == [i \in 1..n |-> "none"]

Data(fmt, es, bad) == [fmt |-> fmt, entries |-> es, bad |-> bad]

NoData == Data("none", <<>>, FALSE)

IdleCall ==
    [op |-> "none", rev |-> "none", goos |-> "linux", pre |-> SeedEmpty, data |-> NoData,
     dest |-> Dest, plan |-> <<>>, path |-> Dest, flt |-> NoFlt, srcParent |-> Dest,
     repoName |-> <<"foo">>, installDir |-> Dest, readFails |-> FALSE,
     renameFails |-> FALSE, lines |-> <<>>, done |-> FALSE, res |-> NoResult]

LibGOOS == {"darwin", "linux"}

UnzipCalls(c) ==
    \/ \E pre \in {SeedEmpty, SeedOld}, es \in EntryLists : \E pl \in Plans(Len(es), ZipFaults) :
          c = [IdleCall EXCEPT !.op = "unzipTo", !.pre = pre, !.data = Data("zip", es, FALSE),
                               !.plan = pl]
    \/ \E pre \in {SeedEmpty, SeedOld}, fmt \in {"targz", "html"}, es \in EntryLists :
          c = [IdleCall EXCEPT !.op = "unzipTo", !.pre = pre, !.data = Data(fmt, es, FALSE),
                               !.plan = NoPlan(Len(es))]

TarLibRevs == {"p000a", "launcher1", "p002", "p003"}

UntarCalls(c) ==
    \/ \E rev \in TarLibRevs, pre \in {SeedEmpty, SeedOld}, es \in EntryLists :
          \E pl \in Plans(Len(es), TarFaults) :
          c = [IdleCall EXCEPT !.op = "untarGzTo", !.rev = rev, !.pre = pre,
                               !.data = Data("targz", es, FALSE), !.plan = pl]
    \/ \E rev \in TarLibRevs, goos \in LibGOOS, pre \in {SeedEmpty, SeedOld},
          bad \in BOOLEAN, es \in EntryLists :
          c = [IdleCall EXCEPT !.op = "untarGzTo", !.rev = rev, !.goos = goos, !.pre = pre,
                               !.data = Data("targz", es, bad), !.plan = NoPlan(Len(es))]
    \/ \E rev \in TarLibRevs, fmt \in {"zip", "html"}, es \in EntryLists :
          c = [IdleCall EXCEPT !.op = "untarGzTo", !.rev = rev, !.data = Data(fmt, es, FALSE),
                               !.plan = NoPlan(Len(es))]

SeedNoQuar == FsOf({<<Root, DirNode>>, <<Dest, DirNode>>,
                    <<Dest \o <<NameA>>, FileNode(<<9>>, ModeCreate, FALSE)>>})

EnsureLibRevs == {"p000a", "p002", "launcher1", "p003"}

EnsureCalls(c) ==
    \E rev \in EnsureLibRevs, goos \in LibGOOS, pre \in {SeedOld, SeedNoQuar},
       path \in {Dest \o <<NameA>>, Dest \o <<NameSub>>, Dest},
       flt \in [chmod : BOOLEAN, shell : BOOLEAN, xattr : BOOLEAN] :
       c = [IdleCall EXCEPT !.op = "ensureExecutable", !.rev = rev, !.goos = goos,
                            !.pre = pre, !.path = path, !.flt = flt]

FooBar == <<"foo", "-", "bar">>

FooBaz == <<"foo", "-", "baz">>

FooBarNoDash == <<"foo", "bar">>

Foo == <<"foo">>

\* a parent directory dest with some of the children foo-bar, foo-baz, foobar, and
\* something or nothing at the target inst/foo
MoveSeed(fb, fz, nb, fo, inst, outThere) ==
    FsOf( {<<Root, DirNode>>, <<Dest, DirNode>>}
          \cup (IF outThere THEN {<<Out, DirNode>>} ELSE {})
          \cup (IF fb = "dir" THEN {<<Dest \o <<FooBar>>, DirNode>>,
                                    <<Dest \o <<FooBar, StartSh>>, FileNode(<<7>>, ModePlain, FALSE)>>}
                ELSE IF fb = "file" THEN {<<Dest \o <<FooBar>>, FileNode(<<5>>, ModePlain, FALSE)>>}
                ELSE {})
          \cup (IF fz = "dir" THEN {<<Dest \o <<FooBaz>>, DirNode>>} ELSE {})
          \cup (IF nb = "dir" THEN {<<Dest \o <<FooBarNoDash>>, DirNode>>} ELSE {})
          \cup (IF fo = "emptydir" THEN {<<inst \o <<Foo>>, DirNode>>}
                ELSE IF fo = "fulldir" THEN {<<inst \o <<Foo>>, DirNode>>,
                                             <<inst \o <<Foo, NameA>>, FileNode(<<9>>, ModePlain, FALSE)>>}
                ELSE IF fo = "file" THEN {<<inst \o <<Foo>>, FileNode(<<9>>, ModePlain, FALSE)>>}
                ELSE {}) )

MoveCalls(c) ==
    \E fb \in {"none", "dir", "file"}, fz \in {"none", "dir"}, nb \in {"none", "dir"},
       fo \in {"none", "emptydir", "fulldir", "file"}, inst \in {Dest, Out},
       ot \in BOOLEAN, rf \in BOOLEAN, nf \in BOOLEAN :
       c = [IdleCall EXCEPT !.op = "moveIntoPlace",
                            !.pre = MoveSeed(fb, fz, nb, fo, inst,
                                             (inst = Out /\ fo # "none") \/ ot),
                            !.installDir = inst, !.readFails = rf, !.renameFails = nf]

(***************************************************************************)
(* promptForInstallPath.  Text is a sequence of tokens, standard input a   *)
(* sequence of lines.                                                      *)
(***************************************************************************)
WhiteSpace == {" ", "\t", "\n"}

RECURSIVE TrimLeft(_)
TrimLeft(s) == IF Len(s) > 0 /\ s[1] \in WhiteSpace THEN TrimLeft(Tail(s)) ELSE s

RECURSIVE TrimRight(_)
TrimRight(s) ==
    IF Len(s) > 0 /\ s[Len(s)] \in WhiteSpace THEN TrimRight(SubSeq(s, 1, Len(s) - 1)) ELSE s

\* strings.TrimSpace
TrimSpace(s) == TrimRight(TrimLeft(s))

\* a variant that compares the answer as typed
ToLowerAsTyped(s) == s

\* strings.ToLower
ToLower(s) ==
    [i \in 1..Len(s) |-> IF s[i] = "N" THEN "n" ELSE IF s[i] = "Y" THEN "y" ELSE s[i]]

\* scanner.Scan(); scanner.Text(): the k-th line, or "" at the end of the input
ScanLine(lines, k) == IF k <= Len(lines) THEN lines[k] ELSE <<>>

promptForInstallPath(defaultPath, lines) ==
    LET input == TrimSpace(ScanLine(lines, 1))
    IN  IF ToLower(input) = <<"n">>
        THEN LET customPath == TrimSpace(ScanLine(lines, 2))
             IN  IF customPath # <<>> THEN customPath ELSE defaultPath
        ELSE defaultPath

\* the default location as the prompt shows it
DefaultText == <<"~", "/", "xmlui", "-", "getting", "-", "started">>

LinePool ==
    { <<>>, <<"n">>, <<"N">>, <<" ", "n", "\t">>, <<"y">>, <<"Y">>, <<"n", "o">>, <<" ">>,
      <<"/", "out">>, <<" ", "/", "out", " ">>, <<"\t", "N">> }

PromptCalls(c) ==
    \E k \in 0..2 : \E ls \in [1..k -> LinePool] :
        c = [IdleCall EXCEPT !.op = "promptForInstallPath", !.lines = ls]

RunIdle == [rev |-> "none", pc |-> "idle"]

Init ==
    /\ \/ UnzipCalls(call) \/ UntarCalls(call) \/ EnsureCalls(call) \/ MoveCalls(call)
       \/ PromptCalls(call)
    /\ fs = call.pre
    /\ run = RunIdle

Finish(r) ==
    /\ fs' = r.fs
    /\ call' = [call EXCEPT !.done = TRUE, !.res = r]
    /\ UNCHANGED run

DoUnzipTo ==
    /\ call.op = "unzipTo" /\ ~call.done
    /\ Finish(unzipTo(call.data, call.dest, fs, call.plan))

DoUntarGzTo ==
    /\ call.op = "untarGzTo" /\ ~call.done
    /\ Finish(untarGzTo(call.rev, call.goos, call.data, call.dest, fs, call.plan))

DoEnsureExecutable ==
    /\ call.op = "ensureExecutable" /\ ~call.done
    /\ LET r == ensureExecutable(call.rev, call.goos, fs, call.path, call.flt)
       IN  Finish([NoResult EXCEPT !.fs = r.fs, !.err = r.err])

DoMoveIntoPlace ==
    /\ call.op = "moveIntoPlace" /\ ~call.done
    /\ Finish(moveIntoPlace(fs, call.srcParent, call.repoName, call.installDir,
                            call.readFails, call.renameFails))

DoPromptForInstallPath ==
    /\ call.op = "promptForInstallPath" /\ ~call.done
    /\ Finish([NoResult EXCEPT !.fs = fs,
                               !.ret = promptForInstallPath(DefaultText, call.lines)])

Next ==
    \/ DoUnzipTo \/ DoUntarGzTo \/ DoEnsureExecutable \/ DoMoveIntoPlace
    \/ DoPromptForInstallPath

Spec == Init /\ [][Next]_vars

(***************************************************************************)
(* The run of main, one step per operation.  Eight programs are followed.  *)
(* The stepwise ones organize after each download: the bundlers of         *)
(* part_000 (p000a, p000b: net/http, no launch) and the launchers of       *)
(* part_001 and part_002 (p001, p002: curl, the run ends by launching      *)
(* start.sh).  The others download everything first: xmlui-launcher.go     *)
(* (launcher1, launcher2), part_003 and part_004 (p003, p004).  run holds  *)
(* the position of main and its local variables; what the servers answer,  *)
(* what the user types and how the startup script ends are fixed at the    *)
(* start.                                                                  *)
(***************************************************************************)
Inv == <<"xmlui", "-", "invoice">>

InvMain == Inv \o <<"-", "main">>

XmluiSource == <<"xmlui", "-", "source">>

McpTmp == <<"mcp", "Tmp">>

Mcp == <<"mcp">>

Docs == <<"docs">>

Src == <<"src">>

Pages == <<"pages">>

Components == <<"components">>

Xmlui == <<"xmlui">>

XmluiMain == <<"xmlui", "-", "main">>

XmluiMcp == <<"xmlui", "-", "mcp">>

XmluiMcpClient == <<"xmlui", "-", "mcp", "-", "client">>

RunMcpClient == <<"run", "-", "mcp", "-", "client">>

TestServer == <<"xmlui", "-", "test", "-", "server">>

StartBat == <<"start", ".bat">>

StartMacSh == <<"start", "-", "mac", ".sh">>

CleanupSh == <<"cleanup", ".sh">>

CleanupBat == <<"cleanup", ".bat">>

StepRevs == {"p000a", "p000b", "p001", "p002"}

BulkRevs == {"launcher1", "launcher2", "p003", "p004"}

MainRevs == StepRevs \cup BulkRevs

\* the revisions that leave main by return, with status 0, when a step fails
ReturnRevs == {"launcher2", "p003", "p004"}

HttpRevs == {"p000a", "p000b"}

\* runtime.GOOS: the three platforms the switch names and one it does not
MainGOOS == {"darwin", "linux", "windows", "freebsd"}

\* runtime.GOARCH
GOARCH == {"arm64", "amd64"}

\* the programs built around osascript and the mac-arm server run on macOS only
GOOSOf(rev) == IF rev \in ReturnRevs THEN {"darwin"} ELSE MainGOOS

\* the archive behind serverURL is a ZIP: only the windows URL ends in .zip, and
\* launcher2, part_003, part_004 always fetch the tar.gz
ServerIsZip(goos) == goos = "windows"

TarGz == <<".tar", ".gz">>

\* the release asset chosen for the platform; the revisions spell the linux and
\* windows assets differently
getPlatformSpecificServerURL(rev, goos, arch) ==
    LET baseURL == <<"xmlui-test-server">>
    IN  CASE goos = "darwin" ->
                IF arch = "arm64" THEN baseURL \o <<"-mac-arm">> \o TarGz
                ELSE baseURL \o <<"-mac-amd">> \o TarGz
          [] goos = "linux" ->
                baseURL \o <<IF rev = "launcher1" THEN "-linux-amd" ELSE "-linux-amd64">> \o TarGz
          [] goos = "windows" ->
                baseURL \o <<CASE rev = "launcher1" -> "-windows"
                               [] rev \in HttpRevs -> "-windows-amd64"
                               [] OTHER -> "-windows64">> \o <<".zip">>
          [] OTHER -> baseURL \o <<"-mac-arm">> \o TarGz

\* the constant of the programs that fetch one asset on every platform
serverTarGzURL == <<"xmlui-test-server", "-mac-arm">> \o TarGz

serverURL(r) ==
    IF r.rev \in ReturnRevs THEN serverTarGzURL
    ELSE getPlatformSpecificServerURL(r.rev, r.goos, r.arch)

\* strings.Contains
Contains(s, x) == \E i \in 0..(Len(s) - Len(x)) : SubSeq(s, i + 1, i + Len(x)) = x

Releases == "/releases/download/v1.0.0/"

appZipURL ==
    <<"codeload.github.com", "/", "jonudell", "/", "xmlui", "-invoice", "/zip/refs/heads/", "main">>

\* the XMLUI repository: by codeload in the first program of part_000, by the API in
\* the second
xmluiRepoZip(rev) ==
    IF rev = "p000a"
    THEN <<"codeload.github.com", "/", "xmlui-com", "/", "xmlui", "/zip/refs/heads/", "main">>
    ELSE <<"api.github.com", "/repos/", "xmlui-com", "/", "xmlui", "/zipball/refs/heads/", "main">>

xmluiComponentsURL ==
    <<"github.com", "/", "jonudell", "/", "xmlui", "-launcher", Releases, "xmlui", "-components", ".zip">>

getPlatformSpecificMCPURL(goos, arch) ==
    <<"github.com", "/", "jonudell", "/", "xmlui", "-mcp", Releases, "xmlui", "-mcp">>
        \o <<CASE goos = "darwin" /\ arch # "arm64" -> "-mac-amd"
                [] goos = "linux" -> "-linux-amd64"
                [] goos = "windows" -> "-windows-amd64"
                [] OTHER -> "-mac-arm">>
        \o <<".zip">>

\* the URL handed to downloadWithProgress at a stage
StageURL(r) ==
    CASE r.stage = "app" -> appZipURL
      [] r.stage = "xmlui" -> xmluiRepoZip(r.rev)
      [] r.stage = "components" -> xmluiComponentsURL
      [] r.stage = "mcp" -> getPlatformSpecificMCPURL(r.goos, r.arch)
      [] OTHER -> <<"github.com", "/", "JonUdell", "/", "xmlui", "-test-server", Releases>>
                      \o serverURL(r)

\* the text the downloader looks for in the URL before it reads the variable
PrivateMark(rev) ==
    IF rev = "p000a" THEN <<"codeload.github.com", "/", "xmlui-com", "/", "xmlui">>
    ELSE <<"api.github.com", "/repos/", "xmlui-com", "/", "xmlui">>

NoAuth == <<>>

\* the values of GITHUB_TOKEN (first program of part_000) or PAT_TOKEN (second):
\* unset, which reads as the empty string, or set
EnvTokens == {"", "secret"}

\* a variant that sends the credential with every request once the variable is set
CredentialAnyURL(rev, url, token) ==
    IF rev \in HttpRevs /\ token # ""
    THEN <<IF rev = "p000a" THEN "Basic" ELSE "Bearer", token>>
    ELSE NoAuth

\* what the request carries as authorization: req.SetBasicAuth(token, "x-oauth-basic")
\* or req.Header.Set("Authorization", "Bearer "+token)
Credential(rev, url, token) ==
    IF rev \in HttpRevs /\ Contains(url, PrivateMark(rev)) /\ token # ""
    THEN <<IF rev = "p000a" THEN "Basic" ELSE "Bearer", token>>
    ELSE NoAuth

\* a variant that handles every server archive as a tar.gz
ExtractsAsTarGz(rev, url) == FALSE

\* main's choice of the extractor: unzipTo (TRUE) or untarGzTo (FALSE)
ExtractsWithUnzip(rev, url) ==
    CASE rev \in ReturnRevs -> FALSE
      [] rev = "launcher1" -> ~HasSuffix(url, TarGz)
      [] OTHER -> HasSuffix(url, <<".zip">>)

expectedFiles(rev, goos) ==
    IF rev \in HttpRevs /\ goos = "windows"
    THEN <<XmluiMcp \o <<".exe">>, XmluiMcpClient \o <<".exe">>, RunMcpClient \o <<".bat">>>>
    ELSE <<XmluiMcp, XmluiMcpClient, RunMcpClient \o <<".sh">>>>

\* strings.HasSuffix(name, ".sh") || !strings.HasSuffix(name, ".exe")
ExecCond(name) == HasSuffix(name, <<".sh">>) \/ ~HasSuffix(name, <<".exe">>)

\* strings.Contains(name, ".")
ContainsDot(name) == \E i \in 1..Len(name) : name[i] \in {".bat", ".exe", ".md", ".sh", ".txt"}

\* what a server answers: net is FALSE when no answer arrived at all
Answer(net, status, body) == [net |-> net, status |-> status, body |-> body]

ErrorPage == Data("html", <<>>, FALSE)

NoAnswer == Answer(FALSE, 0, NoData)

NotFound == Answer(TRUE, 404, ErrorPage)

Unauthorized == Answer(TRUE, 401, ErrorPage)

Ok(body) == Answer(TRUE, 200, body)

\* net/http: an error unless the status is 200
downloadHTTP(a) ==
    IF ~a.net THEN [err |-> "net", data |-> NoData]
    ELSE IF a.status # 200 THEN [err |-> "status", data |-> NoData]
    ELSE [err |-> "nil", data |-> a.body]

\* curl -L -sS: a non-zero exit only when the transfer itself failed; what the
\* server sent with an error status is written to stdout like any other body
downloadCurl(a) ==
    IF ~a.net THEN [err |-> "curl", data |-> NoData]
    ELSE [err |-> "nil", data |-> a.body]

downloadWithProgress(rev, a) == IF rev \in HttpRevs THEN downloadHTTP(a) ELSE downloadCurl(a)

AppZip ==
    Data("zip", <<DirEntry(<<InvMain>>),
                  FileEntry(<<InvMain, StartSh>>, <<7>>, ModePlain),
                  FileEntry(<<InvMain, StartBat>>, <<7>>, ModePlain),
                  FileEntry(<<InvMain, StartMacSh>>, <<7>>, ModePlain)>>, FALSE)

AppZipOther == Data("zip", <<DirEntry(<<ProjMain>>), FileEntry(<<ProjMain, StartSh>>, <<7>>, ModePlain)>>, FALSE)

\* the XMLUI repository: one top directory xmlui-main with the components
XmluiZip ==
    Data("zip", <<FileEntry(<<XmluiMain, Docs, Pages, Components, NameA>>, <<1>>, ModePlain),
                  FileEntry(<<XmluiMain, Xmlui, Src, Components, NameA>>, <<2>>, ModePlain)>>,
         FALSE)

\* an archive without the top directory
XmluiZipFlat == Data("zip", <<FileEntry(<<ReadmeTxt>>, <<1>>, ModePlain)>>, FALSE)

AuxEntries(names) == [i \in 1..Len(names) |-> FileEntry(<<names[i]>>, <<i>>, ModePlain)]

McpZip(rev, goos, keep) ==
    Data("zip", AuxEntries(SelectSeq(expectedFiles(rev, goos), LAMBDA n : n \in keep)), FALSE)

ComponentsZip(rev, goos, keep) ==
    Data("zip", <<FileEntry(<<Xmlui, Src, NameA>>, <<6>>, ModePlain)>>
                \o (IF rev = "p002"
                    THEN AuxEntries(SelectSeq(expectedFiles(rev, goos), LAMBDA n : n \in keep))
                    ELSE <<>>),
         FALSE)

ServerArchive(rev, goos) ==
    IF ServerIsZip(goos)
    THEN Data("zip", <<FileEntry(<<TestServer \o <<".exe">>>>, <<4>>, ModePlain)>>, FALSE)
    ELSE Data("targz", <<FileEntry(<<TestServer>>, <<4>>, ModePlain)>>, FALSE)

\* a server archive that holds no file
ServerArchiveEmpty == Data("targz", <<>>, FALSE)

\* which of the three auxiliary files an archive holds
KeepSets(rev, goos) ==
    LET e == expectedFiles(rev, goos)
    IN  {{e[1], e[2], e[3]}, {e[2], e[3]}, {e[1], e[3]}, {}}

\* the downloads of main in program order
StageSeq(rev) ==
    CASE rev \in HttpRevs    -> <<"app", "xmlui", "mcp", "server">>
      [] rev = "p001"        -> <<"app", "components", "mcp", "server">>
      [] rev = "p002"        -> <<"app", "components", "server">>
      [] rev = "launcher1"   -> <<"app", "server", "components", "mcp">>
      [] rev = "p004"        -> <<"app", "server", "mcp">>
      [] OTHER               -> <<"app", "server">>

Stages(rev) == {StageSeq(rev)[i] : i \in 1..Len(StageSeq(rev))}

GoodAnswers(rev, goos, stage) ==
    CASE stage = "app"        -> {Ok(AppZip)}
      [] stage = "xmlui"      -> {Ok(XmluiZip), Ok(XmluiZipFlat)}
      [] stage = "mcp"        -> {Ok(McpZip(rev, goos, k)) : k \in KeepSets(rev, goos)}
      [] stage = "components" -> {Ok(ComponentsZip(rev, goos, k)) : k \in KeepSets(rev, goos)}
      [] stage = "server"     -> {Ok(ServerArchive(rev, goos))}

\* answers that end the run at their step
BadAnswers(rev, goos, stage) ==
    {NoAnswer, NotFound} \cup
    CASE stage = "app"    -> {Ok(AppZipOther)}
      [] stage = "xmlui"  -> {Unauthorized}
      [] stage = "server" -> IF rev \in BulkRevs /\ ~ServerIsZip(goos)
                             THEN {Ok(ServerArchiveEmpty)} ELSE {}
      [] OTHER            -> {}

\* every answer is a good one, but for at most one stage
AnswerMaps(rev, goos) ==
    {m \in [Stages(rev) -> UNION {GoodAnswers(rev, goos, s) \cup BadAnswers(rev, goos, s) : s \in Stages(rev)}] :
        /\ \A s \in Stages(rev) : m[s] \in GoodAnswers(rev, goos, s) \cup BadAnswers(rev, goos, s)
        /\ Cardinality({s \in Stages(rev) : m[s] \notin GoodAnswers(rev, goos, s)}) <= 1}

\* how the run is answered when it asks for the install location: tty says
\* whether standard input is a terminal, lines is what is typed there, and
\* dialog is what the folder picker of osascript gives back
Choice(tty, lines, ok, out) == [tty |-> tty, lines |-> lines, ok |-> ok, out |-> out]

NoChoice == Choice(TRUE, <<>>, FALSE, <<>>)

CustomText == <<"/", "out">>

TypedCustom == Choice(TRUE, <<<<"n">>, CustomText>>, FALSE, <<>>)

DialogCancelled == Choice(FALSE, <<>>, FALSE, <<>>)

DialogChosen == Choice(FALSE, <<>>, TRUE, CustomText \o <<"\n">>)

AskRevs == {"p003", "p004"}

Choices(rev) ==
    IF rev \in HttpRevs THEN {NoChoice}
    ELSE IF rev \in AskRevs THEN {NoChoice, DialogCancelled, DialogChosen}
    ELSE {NoChoice, TypedCustom}

\* part_003 falls back to the default when osascript fails; part_004 drops the
\* error and trims whatever was printed
askUserForFolder(rev, defaultPath, in) ==
    IF in.tty THEN promptForInstallPath(defaultPath, in.lines)
    ELSE IF rev = "p003" /\ ~in.ok THEN defaultPath
    ELSE TrimSpace(in.out)

RECURSIVE SplitPath(_, _, _)
SplitPath(t, cur, acc) ==
    IF t = <<>> THEN (IF cur = <<>> THEN acc ELSE Append(acc, cur))
    ELSE IF Head(t) = "/"
    THEN SplitPath(Tail(t), <<>>, IF cur = <<>> THEN acc ELSE Append(acc, cur))
    ELSE SplitPath(Tail(t), Append(cur, Head(t)), acc)

\* the directory a text names: "" stays the empty path, the default text names
\* the default directory in the user's home, any other text is split at "/"
PathOf(t) ==
    IF t = <<>> THEN EmptyPath
    ELSE IF t = DefaultText THEN Dest
    ELSE SplitPath(t, <<>>, <<>>)

\* the working directory of the process
Cwd == Dest

\* a relative path is resolved against the working directory
Resolve(p) == IF p = EmptyPath THEN Cwd ELSE p

\* the exit status of the startup script when it can be started
ScriptExits == {0, 3}

NoCmd == [script |-> EmptyPath, dir |-> EmptyPath, streams |-> {}, via |-> "none"]

MainStart(rev, goos, arch, token, resp, choice, scriptExit) ==
    [rev |-> rev, goos |-> goos, arch |-> arch, token |-> token, sent |-> {}, copyFrom |-> {}, pc |-> "start", stage |-> "none", resp |-> resp,
     body |-> NoData, installDir |-> EmptyPath, appDir |-> EmptyPath,
     serverBin |-> EmptyPath, k |-> 0, choice |-> choice, scriptExit |-> scriptExit,
     inflight |-> {}, log |-> <<>>, cmd |-> NoCmd, out |-> "none", round |-> 1,
     installed |-> FALSE,
     exited |-> FALSE, code |-> 0]

MainInit ==
    /\ call = IdleCall
    /\ fs = SeedEmpty
    /\ \E rev \in MainRevs : \E goos \in GOOSOf(rev) : \E resp \in AnswerMaps(rev, goos) :
         \E arch \in GOARCH, token \in EnvTokens, choice \in Choices(rev), scriptExit \in ScriptExits :
              \* the variable is read by the programs of part_000 only
              /\ rev \notin HttpRevs => token = ""
              \* the script's status matters only where the script is waited for
              /\ rev \in HttpRevs \cup AskRevs => scriptExit = 0
              /\ run = MainStart(rev, goos, arch, token, resp, choice, scriptExit)

Running(pc) == run.pc = pc /\ ~run.exited

\* os.Exit(code) after the message of the failed step
Exit(r, code) ==
    [r EXCEPT !.pc = "exited", !.exited = TRUE, !.code = code,
              !.out = IF code = 0 THEN @ ELSE "failed"]

\* return from main after the message of the failed step: the status is 0
Return(r) == [r EXCEPT !.pc = "exited", !.exited = TRUE, !.code = 0, !.out = "failed"]

\* a variant that prints the message of the failed step and goes on
FailGoesOn(r) == [r EXCEPT !.out = "failed"]

\* how main gives up when a required step fails
Fail(r) == IF r.rev \in ReturnRevs THEN Return(r) ELSE Exit(r, 1)

\* main runs to its end
Done(r) == [r EXCEPT !.pc = "done", !.exited = TRUE, !.code = 0, !.out = "done"]

Goto(r, pc) == [r EXCEPT !.pc = pc]

\* the operation main has just carried out
Did(r, kind) == [r EXCEPT !.log = Append(@, kind)]

Fetch(r, stage) == [r EXCEPT !.pc = "download", !.stage = stage]

\* a variant that goes back to the first download
NextStageFirst(r) == StageSeq(r.rev)[1]

\* the stage after this one in program order
NextStage(r) ==
    LET s == StageSeq(r.rev)
        i == CHOOSE j \in 1..Len(s) : s[j] = r.stage
    IN  IF i < Len(s) THEN s[i + 1] ELSE "none"

InstallPath(r, name) == Join(Resolve(r.installDir), <<name>>)

\* the install location is settled and created; the first download is next
Start ==
    /\ Running("start")
    /\ LET dir == IF run.rev \in HttpRevs THEN Cwd
                  ELSE IF run.rev \in AskRevs
                  THEN PathOf(askUserForFolder(run.rev, DefaultText, run.choice))
                  ELSE PathOf(promptForInstallPath(DefaultText, run.choice.lines))
       IN  /\ fs' = IF dir = EmptyPath THEN fs ELSE MkdirAll(fs, dir, FALSE)
           /\ run' = Fetch([run EXCEPT !.installDir = dir], "app")
    /\ UNCHANGED call

\* the request goes out: http.Get, or curl started by cmd.Output()
Request ==
    /\ Running("download")
    /\ LET url == StageURL(run)
           req == [url |-> url, auth |-> Credential(run.rev, url, run.token)]
       IN  run' = Did([run EXCEPT !.pc = "await", !.inflight = @ \cup {run.stage},
                                  !.sent = @ \cup {req}], "download")
    /\ UNCHANGED <<fs, call>>

\* a variant that goes on to the next request without waiting for the answer
DownloadDetached(r) ==
    LET n == NextStage(r)
    IN  IF n = "none" THEN Fail(r) ELSE Fetch(r, n)

\* the call returns: appZip, err := downloadWithProgress(...) and its like
DownloadReturns(r) ==
    LET d == downloadWithProgress(r.rev, r.resp[r.stage])
        r1 == [r EXCEPT !.inflight = @ \ {r.stage}]
    IN  IF d.err # "nil" THEN Fail(r1)
        ELSE [r1 EXCEPT !.pc = "extract", !.body = d.data]

Download ==
    /\ Running("await")
    /\ run' = DownloadReturns(run)
    /\ UNCHANGED <<fs, call>>

\* step 1: the app archive is unpacked into the install directory
ExtractApp ==
    /\ Running("extract") /\ run.stage = "app"
    /\ LET x == unzipTo(run.body, Resolve(run.installDir), fs, NoPlan(Len(run.body.entries)))
           r == Did(run, "extract")
       IN  /\ fs' = x.fs
           /\ run' = IF x.err # "nil" THEN Fail(r)
                     ELSE IF run.rev \in StepRevs THEN Goto(r, "moveApp")
                     ELSE Fetch(r, NextStage(r))
    /\ UNCHANGED call

\* part_000, part_001, part_002: the app directory gets its final name at once
MoveApp ==
    /\ Running("moveApp")
    /\ LET m == moveIntoPlace(fs, run.installDir, Inv, run.installDir, FALSE, FALSE)
           r == Did(run, "organize")
       IN  /\ fs' = m.fs
           /\ run' = IF m.err # "nil" THEN Exit(r, 1)
                     ELSE Fetch([r EXCEPT !.appDir = m.ret], NextStage(r))
    /\ UNCHANGED call

\* part_000: the XMLUI sources are unpacked into xmlui-source; the first program
\* throws them away at once, the second keeps them to copy the components
ExtractXmlui ==
    /\ Running("extract") /\ run.stage = "xmlui"
    /\ LET tmpDir == InstallPath(run, XmluiSource)
           x == unzipTo(run.body, tmpDir, MkdirAll(fs, tmpDir, FALSE),
                        NoPlan(Len(run.body.entries)))
           r == Did(run, "extract")
       IN  IF x.err # "nil"
           THEN fs' = x.fs /\ run' = Exit(r, 1)
           ELSE IF run.rev = "p000a"
           THEN fs' = RemoveAll(x.fs, tmpDir) /\ run' = Fetch(Did(r, "remove"), "mcp")
           ELSE fs' = x.fs /\ run' = Goto(r, "copyComponents")
    /\ UNCHANGED call

RECURSIVE copyDir(_, _, _)
RECURSIVE CopyEntries(_, _, _, _)
\* the entries of src in the order of os.ReadDir; a failed os.Create ends the
\* copy of this directory, and the result of a nested copyDir is dropped
CopyEntries(f, src, dst, names) ==
    IF names = {} THEN f
    ELSE LET n == FirstName(names)
             srcPath == Join(src, <<n>>)
             dstPath == Join(dst, <<n>>)
         IN  IF IsDir(f, srcPath)
             THEN CopyEntries(copyDir(MkdirAll(f, dstPath, FALSE), srcPath, dstPath),
                              src, dst, names \ {n})
             ELSE IF ~CanCreate(f, dstPath) THEN f
             ELSE LET f1 == Create(f, dstPath)
                  IN  CopyEntries(WriteFile(f1, dstPath, f1[srcPath].bytes),
                                  src, dst, names \ {n})

copyDir(f, src, dst) ==
    IF ~IsDir(f, src) THEN f ELSE CopyEntries(f, src, dst, ChildNames(f, src))

\* part_000, second program: the two component directories are copied out of the
\* first xmlui-* directory of xmlui-source, then xmlui/src becomes src
CopyComponents ==
    /\ Running("copyComponents")
    /\ LET tmpDir == InstallPath(run, XmluiSource)
           roots  == {n \in ChildNames(fs, tmpDir) :
                         IsDir(fs, Join(tmpDir, <<n>>)) /\ HasPrefix(n, <<"xmlui", "-">>)}
           sourceRoot == IF roots = {} THEN Cwd ELSE Join(tmpDir, <<FirstName(roots)>>)
           docsTo == Join(Resolve(run.installDir), <<Docs, Pages, Components>>)
           compTo == Join(Resolve(run.installDir), <<Xmlui, Src, Components>>)
           f1 == MkdirAll(MkdirAll(fs, docsTo, FALSE), compTo, FALSE)
           docsFrom == Join(sourceRoot, <<Docs, Pages, Components>>)
           compFrom == Join(sourceRoot, <<Xmlui, Src, Components>>)
           f2 == copyDir(f1, docsFrom, docsTo)
           f3 == copyDir(f2, compFrom, compTo)
           srcFrom == Join(Resolve(run.installDir), <<Xmlui, Src>>)
           srcTo   == InstallPath(run, Src)
           f4 == IF CanRename(f3, srcFrom, srcTo) THEN Rename(f3, srcFrom, srcTo) ELSE f3
       IN  /\ fs' = RemoveAll(f4, InstallPath(run, Xmlui))
           /\ run' = Fetch(Did(Did([run EXCEPT !.copyFrom = {docsFrom, compFrom}], "copy"),
                                "organize"), "mcp")
    /\ UNCHANGED call

\* the MCP tools: into mcpTmp where a loop sorts them, else into the install directory
ExtractMcp ==
    /\ Running("extract") /\ run.stage = "mcp"
    /\ LET tmpMCP == InstallPath(run, McpTmp)
           n == NoPlan(Len(run.body.entries))
           x == IF run.rev \in StepRevs
                THEN unzipTo(run.body, tmpMCP, MkdirAll(fs, tmpMCP, FALSE), n)
                ELSE unzipTo(run.body, Resolve(run.installDir), fs, n)
           r == Did(run, "extract")
       IN  /\ fs' = x.fs
           /\ run' = IF x.err # "nil" THEN Fail(r)
                     ELSE IF run.rev \in StepRevs THEN Goto(r, "mcpPrepare")
                     ELSE Goto(r, "locate")
    /\ UNCHANGED call

\* mcp/ is created before the loop; the first program of part_000 adds mcp/docs
\* and mcp/src
McpPrepare ==
    /\ Running("mcpPrepare")
    /\ LET mcpDir == InstallPath(run, Mcp)
           f1 == MkdirAll(fs, mcpDir, FALSE)
       IN  fs' = IF run.rev = "p000a"
                 THEN MkdirAll(MkdirAll(f1, Join(mcpDir, <<Docs>>), FALSE),
                               Join(mcpDir, <<Src>>), FALSE)
                 ELSE f1
    /\ run' = [run EXCEPT !.pc = "mcpMove", !.k = 1]
    /\ UNCHANGED call

\* the components land in the install directory
ExtractComponents ==
    /\ Running("extract") /\ run.stage = "components"
    /\ LET x == unzipTo(run.body, Resolve(run.installDir), fs, NoPlan(Len(run.body.entries)))
           r == Did(run, "extract")
       IN  /\ fs' = x.fs
           /\ run' = IF x.err # "nil" THEN Exit(r, 1)
                     ELSE IF run.rev = "p001" THEN Goto(r, "organize")
                     ELSE Fetch(r, NextStage(r))
    /\ UNCHANGED call

\* xmlui/src becomes src and xmlui is removed: part_001 right after the components,
\* part_002 in its step 4, where mcp/ is created too
Organize ==
    /\ Running("organize")
    /\ LET srcFrom == Join(Resolve(run.installDir), <<Xmlui, Src>>)
           srcTo   == InstallPath(run, Src)
           f1 == IF CanRename(fs, srcFrom, srcTo) THEN Rename(fs, srcFrom, srcTo) ELSE fs
           f2 == RemoveAll(f1, InstallPath(run, Xmlui))
           r  == Did(run, "organize")
       IN  IF run.rev = "p001"
           THEN fs' = f2 /\ run' = Fetch(r, "mcp")
           ELSE /\ fs' = MkdirAll(f2, InstallPath(run, Mcp), FALSE)
                /\ run' = [r EXCEPT !.pc = "mcpMove", !.k = 1]
    /\ UNCHANGED call

\* a variant that looks for the k-th auxiliary file in the install directory
McpSourceInstallDir(r) == InstallPath(r, expectedFiles(r.rev, r.goos)[r.k])

\* where the k-th auxiliary file is expected before the move
McpSource(r) ==
    LET name == expectedFiles(r.rev, r.goos)[r.k]
    IN  IF r.rev = "p002" THEN InstallPath(r, name)
        ELSE Join(InstallPath(r, McpTmp), <<name>>)

\* the filesystem after one pass of the loop over the expected files
McpMoved(f, r) ==
    LET name  == expectedFiles(r.rev, r.goos)[r.k]
        src   == McpSource(r)
        dst   == Join(InstallPath(r, Mcp), <<name>>)
        moved == CanRename(f, src, dst)
        f1    == IF moved THEN Rename(f, src, dst) ELSE f
    IN  \* part_000 and part_001 go on past a failed rename; part_002 drops the error
        IF ExecCond(name) /\ (moved \/ r.rev = "p002")
        THEN ensureExecutable(r.rev, r.goos, f1, dst, NoFlt).fs
        ELSE f1

\* the next file, or the step after the loop
McpAdvance(r) ==
    IF r.k < Len(expectedFiles(r.rev, r.goos)) THEN [r EXCEPT !.k = r.k + 1]
    ELSE [r EXCEPT !.k = 0, !.pc = IF r.rev = "p002" THEN "startSh" ELSE "mcpFinish"]

\* a variant of the loop body that gives up on a file that is not there
McpMoveOrExit(f, r) ==
    IF ~Exists(f, McpSource(r)) THEN [fs |-> f, run |-> Exit(r, 1)]
    ELSE [fs |-> McpMoved(f, r), run |-> McpAdvance(r)]

\* one pass of the loop: no outcome of the rename ends the run
McpMoveStep(f, r) == [fs |-> McpMoved(f, r), run |-> McpAdvance(r)]

McpMove ==
    /\ Running("mcpMove")
    /\ LET m == McpMoveStep(fs, run)
       IN  fs' = m.fs /\ run' = Did(m.run, "organize")
    /\ UNCHANGED call

RECURSIVE EnsureAll(_, _, _, _)
EnsureAll(rev, goos, f, paths) ==
    IF paths = {} THEN f
    ELSE LET p == CHOOSE x \in paths : TRUE
         IN  EnsureAll(rev, goos, ensureExecutable(rev, goos, f, p, NoFlt).fs, paths \ {p})

\* mcpTmp is removed; the first program of part_000 then moves docs and src under
\* mcp/ and makes what is in mcp/ executable
McpFinish ==
    /\ Running("mcpFinish")
    /\ LET mcpDir == InstallPath(run, Mcp)
           f1 == RemoveAll(fs, InstallPath(run, McpTmp))
           mv(f, name) == IF Exists(f, InstallPath(run, name))
                             /\ CanRename(f, InstallPath(run, name), Join(mcpDir, <<name>>))
                          THEN Rename(f, InstallPath(run, name), Join(mcpDir, <<name>>))
                          ELSE f
           f3 == mv(mv(f1, Docs), Src)
           execs == {p \in Children(f3, mcpDir) :
                        /\ ~IsDir(f3, p)
                        /\ \/ HasSuffix(Base(p), <<".exe">>)
                           \/ HasSuffix(Base(p), <<".sh">>)
                           \/ ~ContainsDot(Base(p))}
       IN  IF run.rev = "p000a"
           THEN /\ fs' = EnsureAll(run.rev, run.goos, f3, execs)
                /\ run' = Fetch(Did(Did(Did(run, "remove"), "organize"), "chmod"), "server")
           ELSE /\ fs' = f1
                /\ run' = Fetch(Did(run, "remove"), "server")
    /\ UNCHANGED call

\* the test server is unpacked, by unzipTo or untarGzTo as the URL says: into the
\* app directory where that is known already, else into the install directory
ExtractServer ==
    /\ Running("extract") /\ run.stage = "server"
    /\ LET n == NoPlan(Len(run.body.entries))
           into == IF run.rev \in StepRevs THEN run.appDir ELSE Resolve(run.installDir)
           zip == ExtractsWithUnzip(run.rev, serverURL(run))
           x == IF zip
                THEN unzipTo(run.body, into, fs, n)
                ELSE untarGzTo(run.rev, run.goos, run.body, into, fs, n)
           bin == IF zip THEN Join(into, <<TestServer \o <<".exe">>>>) ELSE x.ret
           r == Did(run, "extract")
       IN  IF x.err # "nil"
           THEN fs' = x.fs /\ run' = Fail(r)
           ELSE CASE run.rev \in HttpRevs ->
                       fs' = x.fs /\ run' = Goto(r, "finalize")
                  [] run.rev = "p001" ->
                       fs' = x.fs /\ run' = Goto(r, "startSh")
                  [] run.rev = "p002" ->
                       /\ fs' = ensureExecutable(run.rev, run.goos, x.fs, bin, NoFlt).fs
                       /\ run' = [Did(r, "chmod") EXCEPT !.pc = "organize", !.serverBin = bin]
                  [] OTHER ->
                       /\ fs' = x.fs
                       /\ run' = LET r1 == [r EXCEPT !.serverBin = bin]
                                 IN  IF NextStage(r) = "none" THEN Goto(r1, "locate")
                                     ELSE Fetch(r1, NextStage(r))
    /\ UNCHANGED call

\* part_000: start.sh is made executable; the first program then writes the
\* cleanup script; main returns
Finalize ==
    /\ Running("finalize")
    /\ LET f1 == ensureExecutable(run.rev, run.goos, fs, Join(run.appDir, <<StartSh>>), NoFlt).fs
           script == InstallPath(run, IF run.goos = "windows" THEN CleanupBat ELSE CleanupSh)
           f2 == IF ~CanCreate(f1, script) THEN f1
                 ELSE IF IsFile(f1, script) THEN WriteFile(f1, script, <<5>>)
                 ELSE [p \in DOMAIN f1 \cup {script} |->
                          IF p = script THEN FileNode(<<5>>, ModeExec, FALSE) ELSE f1[p]]
       IN  IF run.rev = "p000b"
           THEN fs' = f1 /\ run' = Done(Did(run, "chmod"))
           ELSE /\ fs' = IF run.goos = "windows" THEN f2
                         ELSE ensureExecutable(run.rev, run.goos, f2, script, NoFlt).fs
                /\ run' = Done(Did(Did(run, "chmod"), "write"))
    /\ UNCHANGED call

\* part_001, part_002: start.sh is made executable, the error dropped
StartShExec ==
    /\ Running("startSh")
    /\ fs' = ensureExecutable(run.rev, run.goos, fs, Join(run.appDir, <<StartSh>>), NoFlt).fs
    /\ run' = Goto(Did(run, "chmod"), "launch")
    /\ UNCHANGED call

DashMain == <<"-", "main">>

\* xmlui-launcher.go, part_003, part_004: everything is unpacked; the app
\* directory is looked up in the install directory and, but for the second
\* program of xmlui-launcher.go, renamed
Locate ==
    /\ Running("locate")
    /\ LET dir == run.installDir
           names == IF run.rev = "launcher2"
                    THEN {n \in ChildNames(fs, dir) : IsDir(fs, Join(dir, <<n>>)) /\ HasPrefix(n, Inv)}
                    ELSE {n \in ChildNames(fs, dir) : IsDir(fs, Join(dir, <<n>>)) /\ HasSuffix(n, DashMain)}
           src == Join(dir, <<FirstName(names)>>)
           dst == IF run.rev = "p003"
                  THEN Join(dir, <<TrimSuffix(FirstName(names), DashMain)>>)
                  ELSE Join(dir, <<Inv>>)
       IN  IF dir = EmptyPath \/ ~IsDir(fs, dir) \/ names = {}
           THEN fs' = fs /\ run' = Fail(Did(run, "locate"))
           ELSE IF run.rev = "launcher2"
           THEN fs' = fs /\ run' = [Did(run, "locate") EXCEPT !.pc = "moveBin", !.appDir = src]
           ELSE IF CanRename(fs, src, dst)
           THEN /\ fs' = Rename(fs, src, dst)
                /\ run' = [Did(run, "organize") EXCEPT !.pc = "moveBin", !.appDir = dst]
           ELSE IF run.rev = "p003"
           THEN fs' = fs /\ run' = Return(Did(run, "organize"))
           ELSE \* the warning is printed and the unrenamed directory is used
                /\ fs' = fs
                /\ run' = [Did(Did(run, "organize"), "warning")
                              EXCEPT !.pc = "moveBin", !.appDir = src]
    /\ UNCHANGED call

\* os.Open, os.Create, io.Copy, os.Chmod(dst, 0755)
copyFile(f, src, dst) ==
    IF ~Exists(f, src) \/ ~CanCreate(f, dst) THEN [fs |-> f, err |-> "copy"]
    ELSE IF IsDir(f, src) THEN [fs |-> Create(f, dst), err |-> "copy"]
    ELSE LET f1 == Create(f, dst)
         IN  [fs |-> Chmod(WriteFile(f1, dst, f1[src].bytes), dst, ModeExec), err |-> "nil"]

\* a variant that has nothing to move when no binary path was returned
moveServerBinaryIfAny(f, rev, binPath, dstBinPath) ==
    IF binPath = EmptyPath THEN [fs |-> f, err |-> "nil"]
    ELSE IF rev = "launcher2" THEN copyFile(f, binPath, dstBinPath)
    ELSE IF CanRename(f, binPath, dstBinPath)
    THEN [fs |-> Rename(f, binPath, dstBinPath), err |-> "nil"]
    ELSE [fs |-> f, err |-> "rename"]

\* os.Rename(binPath, dstBinPath), or copyFile in the second program of
\* xmlui-launcher.go
moveServerBinary(f, rev, binPath, dstBinPath) ==
    IF rev = "launcher2" THEN copyFile(f, binPath, dstBinPath)
    ELSE IF CanRename(f, binPath, dstBinPath)
    THEN [fs |-> Rename(f, binPath, dstBinPath), err |-> "nil"]
    ELSE [fs |-> f, err |-> "rename"]

\* the server binary goes into the app directory: moved, or copied by the second
\* program of xmlui-launcher.go
MoveBin ==
    /\ Running("moveBin")
    /\ LET binPath == run.serverBin
           \* filepath.Base("") is ".", and joining it gives the app directory itself
           dstBinPath == IF binPath = EmptyPath THEN run.appDir
                         ELSE Join(run.appDir, <<Base(binPath)>>)
           c == moveServerBinary(fs, run.rev, binPath, dstBinPath)
           r == Did(run, "organize")
       IN  /\ fs' = c.fs
           /\ run' = IF c.err # "nil" THEN Fail(r)
                     ELSE IF run.rev = "launcher1" /\ run.goos = "windows"
                     THEN Goto(r, "launch")
                     ELSE Goto(r, "ensureStart")
    /\ UNCHANGED call

\* the startup script of the platform
ScriptName(rev, goos) ==
    IF rev \in ReturnRevs THEN StartMacSh
    ELSE IF rev = "launcher1" /\ goos = "windows" THEN StartBat
    ELSE StartSh

\* xmlui-launcher.go, part_003, part_004: a startup script that cannot be made
\* executable ends the run
EnsureStart ==
    /\ Running("ensureStart")
    /\ LET e == ensureExecutable(run.rev, run.goos, fs,
                                 Join(run.appDir, <<ScriptName(run.rev, run.goos)>>), NoFlt)
           r == Did(run, "chmod")
       IN  /\ fs' = e.fs
           /\ run' = IF e.err # "nil" THEN Fail(r) ELSE Goto(r, "launch")
    /\ UNCHANGED call

Streams == {"stdin", "stdout", "stderr"}

\* exec.Command(...) with cmd.Dir and the streams, and the start of cmd.Run()
Command(r) ==
    CASE r.rev = "launcher2" ->
           [script |-> Join(r.appDir, <<StartMacSh>>), dir |-> r.appDir,
            streams |-> {"stdout", "stderr"}, via |-> "bash"]
      [] r.rev \in AskRevs ->
           [script |-> Join(r.appDir, <<StartMacSh>>), dir |-> r.appDir,
            streams |-> {}, via |-> "osascript"]
      [] OTHER ->
           [script |-> Join(r.appDir, <<ScriptName(r.rev, r.goos)>>), dir |-> r.appDir,
            streams |-> Streams, via |-> "exec"]

Launch ==
    /\ Running("launch")
    /\ run' = Did([run EXCEPT !.pc = "wait", !.cmd = Command(run),
                              !.inflight = @ \cup {"launch"}], "launch")
    /\ UNCHANGED <<fs, call>>

\* the process can be started: a script run directly needs its execute bit, or
\* on windows the .bat suffix; bash needs the file; osascript only tells Terminal
CanStart(f, goos, cmd) ==
    CASE cmd.via = "exec" ->
           /\ IsFile(f, cmd.script)
           /\ IF goos = "windows" THEN HasSuffix(Base(cmd.script), <<".bat">>)
              ELSE HasBit(f[cmd.script].mode, 64)
      [] cmd.via = "bash" -> IsFile(f, cmd.script)
      [] OTHER -> TRUE

\* a variant that hands the status of the script on
WaitPropagates(f, r) ==
    LET r1 == [r EXCEPT !.inflight = @ \ {"launch"}]
    IN  IF ~CanStart(f, r.goos, r.cmd) THEN Fail(r1)
        ELSE IF r.cmd.via # "osascript" /\ r.scriptExit # 0 THEN Exit(r1, r.scriptExit)
        ELSE Done(r1)

\* cmd.Run() returns: any error, a script that ended with a non-zero status
\* included, ends the run the way every failure does
WaitReturns(f, r) ==
    LET r1 == [r EXCEPT !.inflight = @ \ {"launch"}]
    IN  IF ~CanStart(f, r.goos, r.cmd) THEN Fail(r1)
        ELSE IF r.cmd.via # "osascript" /\ r.scriptExit # 0 THEN Fail(r1)
        ELSE Done(r1)

Wait ==
    /\ Running("wait")
    /\ run' = WaitReturns(fs, run)
    /\ UNCHANGED <<fs, call>>

MaxRounds == 3

\* the installer is started again on what the run before, finished or failed, has
\* left; installed remembers that some run before has finished
Rerun ==
    /\ run.exited
    /\ run.round < MaxRounds
    /\ run' = [MainStart(run.rev, run.goos, run.arch, run.token, run.resp, run.choice, run.scriptExit)
                  EXCEPT !.round = run.round + 1,
                         !.installed = run.installed \/ run.pc = "done"]
    /\ UNCHANGED <<fs, call>>

MainNext ==
    \/ Start \/ Request \/ Download \/ ExtractApp \/ MoveApp
    \/ ExtractXmlui \/ CopyComponents \/ ExtractMcp \/ McpPrepare
    \/ ExtractComponents \/ Organize
    \/ McpMove \/ McpFinish \/ ExtractServer
    \/ Finalize \/ StartShExec
    \/ Locate \/ MoveBin \/ EnsureStart
    \/ Launch \/ Wait \/ Rerun

MainSpec == MainInit /\ [][MainNext]_vars

(***************************************************************************)
(* Properties of the single operations (specification Spec).               *)
(***************************************************************************)
Returned(op) == call.op = op /\ call.done

Entries == call.data.entries

FileIdx == {i \in 1..Len(Entries) : Entries[i].kind = "file"}

\* the file entries that no later file entry of the same path overwrites
LastFileIdx == {i \in FileIdx : \A j \in FileIdx : j > i => Entries[j].path # Entries[i].path}

\* the paths an archive names under dest, with the directories they imply
ArchivePaths(es, dest) ==
    UNION {Prefixes(Join(dest, es[i].path)) : i \in 1..Len(es)} \ Prefixes(dest)

PathsUnder(f, dest) == {p \in DOMAIN f : IsUnder(p, dest) /\ p # dest}

BytesKept(f, dest) ==
    \A i \in LastFileIdx :
        /\ IsFile(f, Join(dest, Entries[i].path))
        /\ f[Join(dest, Entries[i].path)].bytes = Entries[i].bytes

\* C1: for a valid ZIP archive and an empty destination, once unzipTo has returned
\* without error the paths under the destination are exactly the paths of the archive
\* (with the parent directories they imply) and every extracted file holds the bytes
\* of its entry.
C1_UnzipReproducesArchive ==
    (Returned("unzipTo") /\ call.data.fmt = "zip" /\ call.pre = SeedEmpty
        /\ call.res.err = "nil")
    => /\ PathsUnder(fs, call.dest) = ArchivePaths(Entries, call.dest)
       /\ BytesKept(fs, call.dest)

\* C2: once untarGzTo has returned without error, every file it extracted has the
\* permission bits 0755, whatever mode the header records, in every revision.
C2_UntarFilesExecutable ==
    (Returned("untarGzTo") /\ call.res.err = "nil")
    => \A i \in FileIdx :
          /\ IsFile(fs, Join(call.dest, Entries[i].path))
          /\ fs[Join(call.dest, Entries[i].path)].mode = ModeExec

MaxOf(S) == CHOOSE x \in S : \A y \in S : y <= x

RetRevs == TarChmodRevs \cup TarPlainRevs

\* C3: in the revisions that return a path, untarGzTo on an archive with at least one
\* file entry returns (when it returns without error) dest joined with the path of
\* the last file entry in archive order, whatever the names are and whatever
\* directory entries follow it.
C3_UntarReturnsLastFile ==
    (Returned("untarGzTo") /\ call.rev \in RetRevs /\ call.res.err = "nil" /\ FileIdx # {})
    => call.res.ret = Join(call.dest, Entries[MaxOf(FileIdx)].path)

\* a successful extraction of two file entries of different paths, a directory entry
\* last: the path of the second file is returned
C3_Witness ==
    /\ Returned("untarGzTo") /\ call.rev \in RetRevs /\ call.res.err = "nil"
    /\ Cardinality(FileIdx) >= 2
    /\ Entries[Len(Entries)].kind = "dir"
    /\ \E i \in FileIdx : Entries[i].path # Entries[MaxOf(FileIdx)].path
    /\ call.res.ret = Join(call.dest, Entries[MaxOf(FileIdx)].path)

\* C4: untarGzTo of the fixture archive (proj-main/ with start.sh and data/readme.txt)
\* into an empty directory yields both files with the bytes of their entries and
\* start.sh executable; and for every archive each file entry is extracted with its
\* bytes (revisions of part_000 and xmlui-launcher.go).
C4_UntarRoundTrip ==
    (Returned("untarGzTo") /\ call.rev \in {"p000a", "launcher1"} /\ call.pre = SeedEmpty
        /\ call.res.err = "nil")
    => /\ BytesKept(fs, call.dest)
       /\ Entries \in {Fixture, FixtureFilesOnly}
          => /\ IsFile(fs, call.dest \o <<ProjMain, StartSh>>)
             /\ IsFile(fs, call.dest \o <<ProjMain, DataDir, ReadmeTxt>>)
             /\ \A b \in XBits : HasBit(fs[call.dest \o <<ProjMain, StartSh>>].mode, b)

Matches == {n \in ChildNames(call.pre, call.srcParent) :
               HasPrefix(n, call.repoName \o <<"-">>)}

TheChild == call.srcParent \o <<CHOOSE n \in Matches : TRUE>>

Final == call.installDir \o <<call.repoName>>

MovedTo(child, final) ==
    \A p \in Subtree(call.pre, child) :
        LET t == final \o SubSeq(p, Len(child) + 1, Len(p))
        IN  t \in DOMAIN fs /\ fs[t] = call.pre[p]

\* C5: moveIntoPlace(parentDir, baseName, destDir): with exactly one child of parentDir
\* named baseName-..., when the listing and the rename succeed that child (with what
\* is below it) is at destDir/baseName, that path is returned and the child is gone
\* from its original name; when the rename fails an error is returned and nothing has
\* moved; with no such child an error (not found, when the listing succeeded) is
\* returned and nothing is renamed.
C5_MoveIntoPlace ==
    Returned("moveIntoPlace")
    => /\ (Cardinality(Matches) = 1 /\ ~call.readFails /\ ~call.renameFails
             /\ CanRename(call.pre, TheChild, Final))
          => /\ call.res.err = "nil"
             /\ call.res.ret = Final
             /\ MovedTo(TheChild, Final)
             /\ ~Exists(fs, TheChild)
       /\ (Cardinality(Matches) = 1 /\ call.res.err # "nil") => fs = call.pre
       /\ Matches = {}
          => /\ call.res.err # "nil"
             /\ ~call.readFails => call.res.err = "notfound"
             /\ fs = call.pre

\* the only matching child foo-bar, a directory with a file in it, beside a
\* non-matching foobar, has been renamed to dest/foo
C5_Witness ==
    /\ Returned("moveIntoPlace") /\ call.res.err = "nil"
    /\ Matches = {FooBar}
    /\ IsDir(call.pre, Dest \o <<FooBarNoDash>>)
    /\ IsFile(fs, Final \o <<StartSh>>)
    /\ ~Exists(fs, Dest \o <<FooBar>>)

\* C6: given bytes that are not a valid ZIP, unzipTo returns an error and creates
\* nothing: the filesystem is the one before the call.
C6_UnzipRejectsNonZip ==
    (Returned("unzipTo") /\ call.data.fmt # "zip")
    => call.res.err # "nil" /\ fs = call.pre

\* a gzip+TAR stream with entries was handed to unzipTo, which refused it
C6_Witness ==
    /\ Returned("unzipTo") /\ call.data.fmt = "targz" /\ Len(Entries) > 0
    /\ call.res.err = "format"

\* C7: unzipTo returns an error whenever creating a directory, creating a destination
\* file or writing an entry's bytes failed.
C7_UnzipReportsIOFailure ==
    (Returned("unzipTo") /\ call.res.failed \cap {"mkdir", "create", "copy"} # {})
    => call.res.err # "nil"

\* setting the permission bits failed: the path is missing, or every attempt the
\* revision makes (os.Chmod, and chmod +x where the revision falls back to it) failed
PermFailed ==
    \/ ~Exists(call.pre, call.path)
    \/ call.flt.chmod /\ (call.rev \in StatRevs => call.flt.shell)

\* C8: ensureExecutable returns an error whenever setting the permission bits failed,
\* and returns none when only the removal of the quarantine attribute failed or the
\* attribute was absent, in every revision.
C8_EnsureExecutableErrors ==
    Returned("ensureExecutable")
    => /\ PermFailed => call.res.err # "nil"
       /\ (Exists(call.pre, call.path) /\ ~call.flt.chmod) => call.res.err = "nil"

\* an archive is well formed when no entry path has a ".." component
WellFormed(es) == \A i \in 1..Len(es) : \A j \in 1..Len(es[i].path) : es[i].path[j] # DotDot

Extracted == Returned("unzipTo") \/ Returned("untarGzTo")

\* C15: for a well-formed archive, every directory and file unzipTo or untarGzTo
\* creates is at the destination root joined with an entry's relative path (or one
\* of the directories above it, below the root), and nothing outside the root is
\* created or modified.
C15_ExtractionStaysUnderRoot ==
    (Extracted /\ WellFormed(Entries))
    => /\ \A p \in DOMAIN fs \ DOMAIN call.pre :
             \E i \in 1..Len(Entries) :
                 /\ HasPrefix(call.dest \o Entries[i].path, p)
                 /\ Len(p) > Len(call.dest)
                 /\ HasPrefix(p, call.dest)
       /\ \A p \in DOMAIN call.pre :
             ~(HasPrefix(p, call.dest) /\ p # call.dest) => (p \in DOMAIN fs /\ fs[p] = call.pre[p])

\* a well-formed archive with a nested file has been extracted two levels below the
\* root and the root's parent is as it was
C15_Witness ==
    /\ Extracted /\ WellFormed(Entries) /\ call.res.err = "nil"
    /\ IsFile(fs, call.dest \o <<NameSub, NameA>>)
    /\ ~Exists(call.pre, call.dest \o <<NameSub>>)
    /\ fs[Root] = call.pre[Root]

NonBlank(s) == {i \in 1..Len(s) : s[i] \notin WhiteSpace}

\* the line holds the single letter n or N and otherwise only blanks
AnswersNo(s) == Cardinality(NonBlank(s)) = 1 /\ \A i \in NonBlank(s) : s[i] \in {"n", "N"}

\* the line without the blanks before its first and after its last other token
Core(s) ==
    LET nb == NonBlank(s)
    IN  SubSeq(s, CHOOSE i \in nb : \A j \in nb : i <= j, CHOOSE i \in nb : \A j \in nb : j <= i)

\* C16: promptForInstallPath(default) returns the typed custom path (trimmed) only
\* when the first input line, trimmed and lower-cased, is "n" and the second line is
\* not blank; for every other input (empty line, "y", end of input, "n" followed by
\* a blank line or by nothing) it returns the default path unchanged.
C16_PromptReturnsCustomOnlyOnNo ==
    Returned("promptForInstallPath")
    => LET ls == call.lines
       IN  IF Len(ls) >= 2 /\ AnswersNo(ls[1]) /\ NonBlank(ls[2]) # {}
           THEN call.res.ret = Core(ls[2])
           ELSE call.res.ret = DefaultText

\* "N" with a tab before it, then the path typed between blanks: the custom path
C16_Witness ==
    /\ Returned("promptForInstallPath")
    /\ call.lines = << <<"\t", "N">>, <<" ", "/", "out", " ">> >>
    /\ call.res.ret = <<"/", "out">>

(***************************************************************************)
(* Properties of the run of main (specification MainSpec).                 *)
(***************************************************************************)
\* C9: when the loop that moves the expected auxiliary files into mcp/ comes to a file
\* whose source path does not exist, the run does not terminate: mcp/ exists, the
\* loop goes on to the next file, and after the last file main goes on to its next
\* step.
C9_MissingAuxFileSkipped ==
    [][(Running("mcpMove") /\ ~Exists(fs, McpSource(run)))
        => /\ ~run'.exited
           /\ IsDir(fs', InstallPath(run, Mcp))
           /\ IF run.k < 3 THEN run'.pc = "mcpMove" /\ run'.k = run.k + 1
              ELSE run'.pc \in {"mcpFinish", "startSh"}]_vars

\* the first expected file was missing, the last one was moved all the same, and
\* the run has gone past the loop to its end
C9_Witness ==
    /\ run.pc = "done" /\ run.code = 0
    /\ ~Exists(fs, Join(InstallPath(run, Mcp), <<expectedFiles(run.rev, run.goos)[1]>>))
    /\ IsFile(fs, Join(InstallPath(run, Mcp), <<expectedFiles(run.rev, run.goos)[3]>>))

\* C10: in every revision, when the server answers a download with a non-success
\* status the downloader returns an error and the run ends: main never stands before
\* an extractor holding what was sent with such an answer.
C10_ErrorStatusNotExtracted ==
    (run.pc = "extract" /\ run.resp[run.stage].net)
    => run.resp[run.stage].status = 200

\* the positions of the log of the run, and the kinds of operation it records
LogIdx == 1..Len(run.log)

Fetching == {"download", "extract"}

\* no operation of the kinds in later follows an operation of kind first
NoneAfter(first, later) ==
    \A i \in LogIdx, j \in LogIdx : (i < j /\ run.log[i] = first) => run.log[j] \notin later

C12_ExitStatusTellsOutcome ==
    run.exited => /\ run.out = "done" => run.code = 0
                  /\ run.out = "failed" => run.code # 0

\* the programs that run the startup script themselves and wait for it
Launched == run.cmd.via = "exec"

ScriptStarted == Launched /\ run.exited /\ CanStart(fs, run.goos, run.cmd)

Leftovers(f, dir) ==
    {n \in ChildNames(f, dir) :
        \/ IsDir(f, Join(dir, <<n>>)) /\ HasSuffix(n, DashMain)
        \/ n \in {XmluiSource, McpTmp}}

\* C14: once the organizing phase of a run has finished (part_000 and the first
\* program of xmlui-launcher.go), the install directory holds no directory whose
\* name still carries the branch suffix and no temporary extraction directory
\* (xmlui-source, mcpTmp).
C14_NoLeftovers ==
    (run.rev \in {"p000a", "p000b", "launcher1"} /\ run.pc \in {"launch", "wait", "done"})
    => Leftovers(fs, Resolve(run.installDir)) = {}

\* C17: when standard input is not a terminal and the folder picker is cancelled or
\* fails, askUserForFolder returns the default path, so the install directory main
\* uses is never the empty string (part_003 and part_004).
C17_InstallDirNeverEmpty ==
    (run.rev \in AskRevs /\ run.pc # "start")
    => /\ run.installDir # EmptyPath
       /\ (~run.choice.tty /\ ~run.choice.ok) => run.installDir = PathOf(DefaultText)

\* C18: a run is fully sequential.  At most one operation is in progress at any
\* moment; while a download or the launched script is in progress the only thing that
\* happens is its completion (nothing else starts, the files are not touched), so an
\* operation starts only when none is in progress and no two downloads overlap.
C18_Sequential ==
    [][ /\ Cardinality(run.inflight) <= 1
        /\ Cardinality(run'.inflight) <= 1
        /\ run.inflight # {} =>
             /\ run'.inflight = {}
             /\ run'.log = run.log
             /\ fs' = fs
        /\ run'.inflight # {} => run'.inflight \in {{run'.stage}, {"launch"}}
      ]_vars

\* the fourth download of the first program of xmlui-launcher.go is in progress
C18_Witness ==
    /\ run.rev = "launcher1" /\ run.pc = "await"
    /\ run.inflight = {"mcp"}
    /\ Cardinality({i \in LogIdx : run.log[i] = "download"}) = 4

AppTarget == Join(Cwd, <<Inv>>)

AppFresh == Join(Cwd, <<InvMain>>)

\* every entry of the app archive is in the install directory, the files with the
\* bytes of the archive
AppExtracted(f) ==
    \A i \in 1..Len(AppZip.entries) :
        LET e == AppZip.entries[i]
        IN  /\ Exists(f, Join(Cwd, e.path))
            /\ e.kind = "file" => (IsFile(f, Join(Cwd, e.path)) /\ f[Join(Cwd, e.path)].bytes = e.bytes)

\* C19: runs are not idempotent.  When the bundler of part_000 is run again on the
\* directory a successful run has populated, extraction writes the app archive into
\* xmlui-invoice-main, over the files a failed run before may have left at the same
\* paths, and moveIntoPlace then fails because installDir/xmlui-invoice exists and is
\* not empty: the run ends there with status 1, never gets past its first step, and
\* leaves the freshly extracted xmlui-invoice-main where it was extracted.
C19_SecondRunCollides ==
    (run.rev \in HttpRevs /\ run.installed)
    => /\ IsDir(fs, AppTarget) /\ Children(fs, AppTarget) # {}
       /\ run.pc # "done"
       /\ run.stage \in {"none", "app"}
       /\ run.pc = "moveApp" => (AppExtracted(fs) /\ ~CanRename(fs, AppFresh, AppTarget))
       /\ (run.exited /\ Len(run.log) = 3)
            => /\ run.code = 1
               /\ moveIntoPlace(fs, run.installDir, Inv, run.installDir, FALSE, FALSE).err = "rename"
               /\ AppExtracted(fs)

\* the third run of the bundler has written over what the second left in
\* xmlui-invoice-main and has ended at moveIntoPlace
C19_Witness ==
    /\ run.rev = "p000a" /\ run.round = 3 /\ run.installed /\ run.exited
    /\ run.log = <<"download", "extract", "organize">>
    /\ IsFile(fs, Join(AppFresh, <<StartSh>>))
    /\ IsFile(fs, Join(AppTarget, <<StartSh>>))

\* XMLUI_GETTING_STARTED_README.md
BundleReadme == <<"README", ".md">>

\* C20: after a successful run of the first program of part_000 the install directory
\* holds only xmlui-invoice/, mcp/ (with docs/ and src/ inside it) and
\* XMLUI_GETTING_STARTED_README.md: no docs/ or src/ at the root, and nothing else
\* that the run has added.
C20_BundleLayout ==
    (run.rev = "p000a" /\ run.pc = "done")
    => /\ ChildNames(fs, Cwd) \subseteq {Inv, Mcp, BundleReadme}
       /\ IsDir(fs, Join(Cwd, <<Inv>>))
       /\ IsDir(fs, Join(Cwd, <<Mcp, Docs>>))
       /\ IsDir(fs, Join(Cwd, <<Mcp, Src>>))

LogKinds == {run.log[i] : i \in LogIdx}

\* what a run has when every required step before the launch has succeeded: every
\* archive downloaded and extracted, the app directory found, and in the programs
\* that move the server binary, the binary inside the app directory
ReadyToLaunch ==
    /\ Cardinality({i \in LogIdx : run.log[i] = "extract"}) = Len(StageSeq(run.rev))
    /\ IsDir(fs, run.appDir)
    /\ run.rev \in BulkRevs =>
         /\ run.serverBin # EmptyPath
         /\ IsFile(fs, Join(run.appDir, <<Base(run.serverBin)>>))

Extractors == {"unzipTo", "untarGzTo"}

\* the same call on the first n entries of the archive only
PrefixRes(n) ==
    LET es == SubSeq(Entries, 1, n)
        pl == SubSeq(call.plan, 1, n)
    IN  IF call.op = "unzipTo"
        THEN unzipTo(Data("zip", es, FALSE), call.dest, call.pre, pl)
        ELSE untarGzTo(call.rev, call.goos, Data("targz", es, FALSE), call.dest, call.pre, pl)

\* the entry at which the call fails; one past the last entry when all of them are
\* unpacked and the stream turns out to be damaged after them
FailedAt ==
    CHOOSE k \in 1..(Len(Entries) + 1) :
        /\ k <= Len(Entries) => PrefixRes(k).err # "nil"
        /\ \A j \in 1..(k - 1) : PrefixRes(j).err = "nil"

\* the call was given an archive of its own format and has returned an error
FailedInArchive ==
    /\ call.op \in Extractors /\ call.done
    /\ call.data.fmt = (IF call.op = "unzipTo" THEN "zip" ELSE "targz")
    /\ call.res.err # "nil"

\* the filesystem when entries 1..k-1 are unpacked
Before == PrefixRes(FailedAt - 1).fs

\* the files and directories produced for the entries 1..k-1
Produced ==
    (DOMAIN Before \ DOMAIN call.pre)
        \cup ({Join(call.dest, Entries[i].path) : i \in 1..(FailedAt - 1)} \cap DOMAIN Before)

\* the path entry k writes to, once os.Create for it has succeeded
RewrittenByFailed ==
    IF FailedAt <= Len(Entries) /\ Entries[FailedAt].kind = "file"
       /\ call.op = "untarGzTo" /\ call.res.err # "create"
    THEN {Join(call.dest, Entries[FailedAt].path)}
    ELSE {}

\* C22 as stated: when unzipTo or untarGzTo fails at entry k, every file and directory
\* produced for the entries 1..k-1 is still there with its full content: nothing
\* written before the failure is removed or truncated.
C22_Original ==
    FailedInArchive => \A p \in Produced : p \in DOMAIN fs /\ fs[p] = Before[p]

\* C22, amended: when unzipTo or untarGzTo fails at entry k, every file and directory
\* produced for the entries 1..k-1 is still there, and with the content it had, but
\* for one case: when entry k of a tar.gz names the path of an earlier file entry,
\* os.Create for entry k has truncated that file before io.Copy (or the permission
\* change) failed, so that file holds what entry k got written, not the earlier
\* content.  The extractor itself removes nothing after the failure.
C22_NoRollback ==
    FailedInArchive =>
        \A p \in Produced :
            /\ p \in DOMAIN fs
            /\ fs[p].kind = Before[p].kind
            /\ p \notin RewrittenByFailed => fs[p] = Before[p]

\* an extractor has failed at its second entry after writing a file for the first
C22_Witness ==
    /\ FailedInArchive /\ FailedAt = 2
    /\ Entries[1].kind = "file"
    /\ Join(call.dest, Entries[1].path) \notin DOMAIN call.pre
    /\ IsFile(fs, Join(call.dest, Entries[1].path))
    /\ fs[Join(call.dest, Entries[1].path)].bytes = Entries[1].bytes


\* ---------------------------------------------------------------------------
\* C23

Platforms == MainGOOS \X GOARCH

KnownGOOS == {"darwin", "linux", "windows"}

ServerIdx(rev) == CHOOSE i \in 1..Len(StageSeq(rev)) : StageSeq(rev)[i] = "server"

\* the run has passed the extraction of the server archive
ServerExtracted ==
    Cardinality({i \in LogIdx : run.log[i] = "extract"}) >= ServerIdx(run.rev)

ServerBinaries ==
    {p \in DOMAIN fs : IsFile(fs, p) /\ Base(p) \in {TestServer, TestServer \o <<".exe">>}}

\* C23: for every GOOS/GOARCH pair, unrecognised ones included,
\* getPlatformSpecificServerURL returns one URL that ends in .zip on windows and in
\* .tar.gz on every other platform (an unknown platform gets the mac-arm asset), and
\* main extracts the server archive with unzipTo exactly when the URL ends in .zip
\* and with untarGzTo otherwise, so the extractor matches the format of the archive:
\* a server archive of the format its URL names is extracted without error and the
\* server binary is on disk.
C23_ExtractorMatchesFormat ==
    /\ \A rev \in MainRevs \ ReturnRevs : \A pl \in Platforms :
         LET u == getPlatformSpecificServerURL(rev, pl[1], pl[2])
         IN  /\ HasSuffix(u, <<".zip">>) <=> pl[1] = "windows"
             /\ HasSuffix(u, TarGz) <=> pl[1] # "windows"
             /\ pl[1] \notin KnownGOOS => u = getPlatformSpecificServerURL(rev, "darwin", "arm64")
             /\ ExtractsWithUnzip(rev, u) <=> HasSuffix(u, <<".zip">>)
    /\ (ServerExtracted /\ run.resp["server"] \in GoodAnswers(run.rev, run.goos, "server")) =>
         /\ ExtractsWithUnzip(run.rev, serverURL(run)) <=> run.resp["server"].body.fmt = "zip"
         /\ ExtractsWithUnzip(run.rev, serverURL(run)) <=> HasSuffix(serverURL(run), <<".zip">>)
         /\ run.round = 1 => ServerBinaries # {}

\* a run on a platform the switch does not name has extracted the mac-arm tar.gz
C23_Witness ==
    /\ run.rev \in MainRevs
    /\ run.goos = "freebsd" /\ run.arch = "amd64" /\ run.round = 1
    /\ ServerExtracted
    /\ serverURL(run) = serverTarGzURL
    /\ ServerBinaries # {}


\* ---------------------------------------------------------------------------
\* C24

\* the child the listing of parentDir shows first among the matching ones
FirstMatch == call.srcParent \o <<CHOOSE n \in Matches : \A m \in Matches \ {n} : NameLess(n, m)>>

\* the paths in parentDir that belong neither to child nor to the target of the rename
Others(f, child) ==
    {p \in DOMAIN f : /\ HasPrefix(p, call.srcParent) /\ p # call.srcParent
                      /\ ~HasPrefix(p, child) /\ ~HasPrefix(p, Final)}

\* C24: when more than one child of parentDir has a name starting with baseName-,
\* moveIntoPlace renames only the first of them in directory-listing order to
\* destDir/baseName (nothing when that rename fails) and leaves every other child of
\* parentDir, matching or not, as it was.
C24_OnlyFirstMatchMoved ==
    (Returned("moveIntoPlace") /\ Cardinality(Matches) > 1 /\ ~call.readFails)
    => /\ call.res.err = "nil"
          => /\ call.res.ret = Final
             /\ MovedTo(FirstMatch, Final)
             /\ ~Exists(fs, FirstMatch)
       /\ call.res.err # "nil" => fs = call.pre
       /\ \A n \in Matches : call.srcParent \o <<n>> # FirstMatch
            => /\ Exists(fs, call.srcParent \o <<n>>)
               /\ fs[call.srcParent \o <<n>>] = call.pre[call.srcParent \o <<n>>]
       /\ Others(fs, FirstMatch) = Others(call.pre, FirstMatch)
       /\ \A p \in Others(call.pre, FirstMatch) : fs[p] = call.pre[p]

\* of the matching children foo-bar (a file) and foo-baz (a directory), foo-bar has
\* been renamed to foo; foo-baz and the non-matching foobar are where they were
C24_Witness ==
    /\ Returned("moveIntoPlace") /\ call.res.err = "nil"
    /\ Matches = {FooBar, FooBaz}
    /\ IsFile(call.pre, Dest \o <<FooBar>>)
    /\ IsFile(fs, Final) /\ ~Exists(fs, Dest \o <<FooBar>>)
    /\ IsDir(fs, Dest \o <<FooBaz>>)
    /\ IsDir(fs, Dest \o <<FooBarNoDash>>)


\* ---------------------------------------------------------------------------
\* C25

Downloads == Cardinality({i \in LogIdx : run.log[i] = "download"})

XmluiIdx(rev) == CHOOSE i \in 1..Len(StageSeq(rev)) : StageSeq(rev)[i] = "xmlui"

\* C25: in the net/http downloader a request carries the credential read from the
\* environment only when its URL is the one of the private source (the archive of the
\* xmlui-com/xmlui repository) and the variable is not empty; requests to every other
\* URL never carry it, and an unset variable does not stop the request from being sent.
C25_CredentialOnlyForPrivateSource ==
    /\ \A q \in run.sent :
         /\ q.auth # NoAuth <=>
              (run.rev \in HttpRevs /\ q.url = xmluiRepoZip(run.rev) /\ run.token # "")
         /\ q.auth # NoAuth => q.auth[2] = run.token
    /\ (run.rev \in HttpRevs /\ Downloads >= XmluiIdx(run.rev)) =>
         \E q \in run.sent : q.url = xmluiRepoZip(run.rev)

\* with the variable set, the four requests of a run have gone out and only the one
\* for the repository archive carries the credential
C25_Witness ==
    /\ run.rev \in HttpRevs /\ run.token # ""
    /\ Cardinality(run.sent) = 4
    /\ Cardinality({q \in run.sent : q.auth # NoAuth}) = 1
    /\ \E q \in run.sent : q.url = xmluiRepoZip(run.rev) /\ q.auth # NoAuth

\* with the variable unset, the request for the repository archive has gone out bare
C25_WitnessUnset ==
    /\ run.rev \in HttpRevs /\ run.token = ""
    /\ \E q \in run.sent : q.url = xmluiRepoZip(run.rev) /\ q.auth = NoAuth


\* ---------------------------------------------------------------------------
\* C26: whenever moveIntoPlace returns a path without error, that path names a
\* directory (the extracted application directory); a regular file of parentDir whose
\* name starts with baseName- is never selected and renamed to destDir/baseName.
C26_ReturnsDirectory ==
    (Returned("moveIntoPlace") /\ call.res.err = "nil")
    => /\ IsDir(fs, call.res.ret)
       /\ \A n \in Matches : IsFile(call.pre, call.srcParent \o <<n>>)
            => Exists(fs, call.srcParent \o <<n>>)


\* ---------------------------------------------------------------------------
\* C27: in the second program of part_000 both source directories handed to copyDir
\* lie beneath the temporary extraction directory installDir/xmlui-source, also when
\* no extracted child directory with the prefix xmlui- is found; the run never copies
\* from a path resolved against the current working directory.
C27_CopiesFromExtractionDir ==
    \A p \in run.copyFrom :
        HasPrefix(p, InstallPath(run, XmluiSource)) /\ p # InstallPath(run, XmluiSource)


\* ---------------------------------------------------------------------------
\* C28

\* the programs that unpack the MCP tools into mcpTmp
McpTmpRevs == {"p000a", "p000b", "p001"}

\* mcpTmp has been removed: these programs go on to the server only after that
McpTmpRemoved == run.rev \in McpTmpRevs /\ run.stage = "server"

McpBody == run.resp["mcp"].body

\* the expected files the MCP archive held
ExpectedInArchive ==
    {i \in 1..Len(McpBody.entries) :
        /\ McpBody.entries[i].kind = "file"
        /\ \E k \in 1..3 : McpBody.entries[i].path = <<expectedFiles(run.rev, run.goos)[k]>>}

EmptyServerArchive ==
    /\ run.resp["server"] = Ok(ServerArchiveEmpty)
    /\ ServerExtracted

\* C29: when the server tar.gz holds no file entry, untarGzTo returns the empty path
\* with no error, and the run of main of xmlui-launcher.go, which moves the returned
\* path into the app directory, ends with a failure before the startup script is
\* launched; it never launches without a server binary inside the app directory.
C29_EmptyArchiveStopsRun ==
    /\ LET x == untarGzTo("launcher1", run.goos, ServerArchiveEmpty, Dest, SeedEmpty, <<>>)
       IN  x.err = "nil" /\ x.ret = EmptyPath
    /\ (run.rev = "launcher1" /\ EmptyServerArchive) =>
         /\ run.serverBin = EmptyPath
         /\ ~Launched
         /\ "launch" \notin LogKinds
         /\ run.pc \notin {"launch", "wait", "done"}
         /\ run.exited => run.code = 1 /\ run.out = "failed"
    /\ (run.rev = "launcher1" /\ Launched) =>
         \E p \in Children(fs, run.appDir) : IsFile(fs, p) /\ Base(p) = Base(run.serverBin)

\* the run got the empty archive, found the app directory, failed to move the binary
\* and has exited with status 1
C29_Witness ==
    /\ run.rev = "launcher1" /\ EmptyServerArchive
    /\ run.exited /\ run.code = 1
    /\ IsDir(fs, run.appDir)
    /\ Len(run.log) > 0 /\ run.log[Len(run.log)] = "organize"
    /\ Cardinality({i \in LogIdx : run.log[i] = "extract"}) = Len(StageSeq(run.rev))


\* ---------------------------------------------------------------------------
\* C30: on every return of unzipTo and untarGzTo, the error returns included, every
\* archive-entry reader and every destination file the call opened has been closed:
\* no open handle is left behind when the function returns.
C30_NoOpenHandleLeft ==
    (Returned("unzipTo") \/ Returned("untarGzTo")) => call.res.leak = 0

=============================================================================
